---- MODULE Spec2Model ----
(***************************************************************************)
(* iCards MCP bridge: the HTTP request layer (IcardsApiAdapter and the     *)
(* BaseService request helpers), the response normalizer, the bulk         *)
(* tag-assignment tool, the deck statistics tool and its estimators, the   *)
(* list_flashcards and update_flashcard tools, the service objects of a    *)
(* process and the interleaving of coroutines, as state machines.          *)
(***************************************************************************)
EXTENDS Integers, Sequences, FiniteSets, TLC

VARIABLES
    pc,        \* position of the request in progress: idle, request, backoff, done
    via,       \* which request code runs: adapter (_make_request) or service (BaseService)
    method,    \* HTTP method of the request in progress
    attempt,   \* loop variable of _make_request (0-based)
    execs,     \* HTTP executions performed for the request in progress
    delays,    \* the time.sleep arguments of the request in progress, in order
    hist,      \* the upstream responses of the request in progress, in order
    outcome,   \* how the request ended: a returned value or a raised exception
    npc,       \* normalizer: how many times _normalize_response has been applied
    envelope,  \* normalizer: the response given to _normalize_response
    normalized,   \* normalizer: _normalize_response(envelope)
    renormalized, \* normalizer: _normalize_response(normalized)
    bpc,               \* assign_tags_to_flashcards: idle, or the call it awaits, or done
    deck_name,         \* argument
    tag_name,          \* argument
    flashcard_ids,     \* argument
    filter_criteria,   \* what the request names instead of ids; the tool has no such argument
    cards,             \* upstream: the flashcards, by id
    deck_tags,         \* upstream: the tags of the target deck, in listing order
    deck_id,           \* local: id of the deck found by name (0 is None)
    tag_id,            \* local: id of the resolved tag (0 is None)
    tag_existed,       \* local
    idx,               \* position of the for loop in flashcard_ids (1-based)
    flashcard_info,    \* local: the record fetched for the current item
    success_count,     \* local
    skipped_count,     \* local
    failed_flashcards, \* local: list of {id, reason}
    updates,           \* the update requests sent upstream, in order
    tag_requests,      \* the tag requests this invocation sent upstream, in order
    selections,        \* client: the selections its requests are drawn from
    raised_reasons,    \* upstream: the failures a raising call of the loop can have
    other,             \* the locals of a second invocation, while it is not the one running
    result,            \* the dict the tool returned
    calls,             \* invocations of the tool so far
    previous,          \* what the invocation before this one returned and had sent
    spc,                    \* get_deck_stats: idle, or the call it awaits, or done
    listed_decks,           \* upstream: the decks as list_decks_mcp returns them
    stats_deck_name,        \* get_deck_stats: argument deck_name
    deck_basic_info,        \* local: the listing entry of the deck found by name
    stats_response,         \* local: what deck_service.get_deck_stats returned
    stats_data,             \* local
    organization_status,    \* local
    backend_provided_stats, \* local
    stats_result,           \* the dict get_deck_stats returned
    epc,                    \* the estimate from a deck-info response: idle or done
    deck_info_response,     \* the deck-info response the estimate is computed from
    calculated_stats,       \* what _calculate_basic_stats_from_deck_info returned
    lpc,               \* list_flashcards: idle, or the call it awaits, or done
    list_args,         \* list_flashcards: its arguments
    list_result,       \* the dict list_flashcards returned
    list_calls,        \* invocations of list_flashcards so far
    upc,               \* update_flashcard: idle, or the call it awaits, or done
    edit_args,         \* update_flashcard: its arguments
    current_flashcard, \* update_flashcard: local, the record fetched first
    edit_result,       \* the dict update_flashcard returned
    instances,         \* process: the service classes whose _instance is set
    clients            \* process: the httpx.AsyncClient objects constructed so far

httpVars == <<pc, via, method, attempt, execs, delays, hist, outcome>>

normVars == <<npc, envelope, normalized, renormalized>>

bulkVars ==
    <<bpc, deck_name, tag_name, flashcard_ids, filter_criteria, cards, deck_tags, deck_id, tag_id, tag_existed,
      idx, flashcard_info, success_count, skipped_count, failed_flashcards, updates, result,
      calls, previous, tag_requests, selections, raised_reasons, other>>

statsVars ==
    <<spc, listed_decks, stats_deck_name, deck_basic_info, stats_response, stats_data,
      organization_status, backend_provided_stats, stats_result,
      epc, deck_info_response, calculated_stats>>

listVars == <<lpc, list_args, list_result, list_calls>>

editVars == <<upc, edit_args, current_flashcard, edit_result>>

procVars == <<instances, clients>>

\* what a tool other than list_flashcards and update_flashcard leaves alone
callerVars == <<listVars, editVars>>

toolVars == <<listVars, editVars, procVars>>

vars == <<httpVars, normVars, bulkVars, statsVars, toolVars>>

----------------------------------------------------------------------------
(* Upstream responses.                                                     *)

\* IcardsApiAdapter.__init__
max_retries == 3
retry_delay == 1

\* Response bodies the upstream can send, as the text on the wire.
EmptyText == ""
DictText == "{\"data\": []}"
ListText == "[]"
ScalarText == "7"
PlainText == "front is required"
GenericText == "Invalid request data"

Texts == {EmptyText, DictText, ListText, ScalarText, PlainText, GenericText}

\* response.json(): the kind of JSON value a body decodes to; "invalid" is the
\* JSONDecodeError of an empty or non-JSON body.
JsonKind(t) ==
    CASE t = DictText -> "dict"
      [] t = ListText -> "list"
      [] t = ScalarText -> "scalar"
      [] OTHER -> "invalid"

Statuses == {200, 204, 400, 401, 403, 404, 409, 422, 500, 503}

\* status 0 stands for httpx.RequestError: no response at all (connection or timeout).
NetworkFailure == [status |-> 0, text |-> EmptyText]

Responses ==
    {r \in [status : Statuses, text : Texts] : r.status = 204 => r.text = EmptyText}
        \cup {NetworkFailure}

\* response.raise_for_status(): HTTPStatusError for 4xx and 5xx.
RaisesForStatus(r) == r.status >= 400

\* A decoded JSON value: the body text it was decoded from, and the wrapper
\* IcardsApiAdapter._normalize_response put around it.
Envelope(wrap, t) == [wrap |-> wrap, of |-> t]

\* The literal {"success": True}.
SuccessTrue == Envelope("none", "{\"success\": true}")

NoEnvelope == Envelope("none", "")

\* IcardsApiAdapter._normalize_response
AdapterNormalize(t) ==
    CASE JsonKind(t) = "dict" -> Envelope("none", t)
      [] JsonKind(t) = "list" -> Envelope("items", t)
      [] OTHER -> Envelope("data", t)

----------------------------------------------------------------------------
(* Outcomes of a request.                                                  *)

NoOutcome == [kind |-> "none", err |-> "", msg |-> "", status |-> 0, text |-> "", env |-> NoEnvelope]

Returned(env) ==
    [kind |-> "value", err |-> "", msg |-> "", status |-> 0, text |-> "", env |-> env]

\* raise Exception(msg): a bare Exception whose text is msg.
RaisedException(err, msg) ==
    [kind |-> "raised", err |-> err, msg |-> msg, status |-> 0, text |-> "", env |-> NoEnvelope]

\* str() of an httpx.HTTPStatusError, as httpx words it.
HttpxMessage(r) == IF r.status >= 500 THEN "Server error for url" ELSE "Client error for url"

\* A re-raised httpx.HTTPStatusError: it carries the response.
RaisedStatusError(r) ==
    [kind |-> "raised", err |-> "HTTPStatusError", msg |-> HttpxMessage(r),
     status |-> r.status, text |-> r.text, env |-> NoEnvelope]

----------------------------------------------------------------------------
(* IcardsApiAdapter._make_request: the retry loop.                         *)

AdapterMethods == {"GET", "POST", "PUT", "DELETE", "PATCH"}

\* the if/elif chain on method.upper(); anything else raises ValueError
SupportedMethod(m) == m \in {"GET", "POST", "PUT", "DELETE"}

\* "if e.response.status_code >= 500" after the 401/403/404/422 tests
IsServerErrorRetryNoLimit(r) == r.status >= 400

IsServerError(r) == r.status >= 500

\* "if attempt < self.max_retries - 1"
HasAttemptsLeftOffByOne(a) == a < max_retries

HasAttemptsLeft(a) == a < max_retries - 1

\* "time.sleep(self.retry_delay * (attempt + 1))"
BackoffDelayConstant(a) == retry_delay

BackoffDelay(a) == retry_delay * (a + 1)

\* One pass of the loop body on response r with loop variable a: either the
\* loop continues after a sleep (retry), or the call ends with out.
Retry == [retry |-> TRUE, out |-> NoOutcome]

Ends(out) == [retry |-> FALSE, out |-> out]

\* except httpx.HTTPStatusError
AdapterStatusError(r, a) ==
    CASE r.status = 401 -> Ends(RaisedException("Unauthorized", "Authentication required"))
      [] r.status = 403 -> Ends(RaisedException("Forbidden", "Access denied"))
      [] r.status = 404 -> Ends(RaisedException("NotFound", "Resource not found"))
      [] r.status = 422 -> Ends(RaisedException("Validation", "Invalid request data"))
      [] OTHER ->
            IF IsServerError(r)
            THEN IF HasAttemptsLeft(a)
                 THEN Retry
                 ELSE Ends(RaisedException("Upstream", "Server error"))
            ELSE Ends(RaisedStatusError(r))

\* except httpx.RequestError
AdapterRequestErrorAsValue(a) ==
    IF HasAttemptsLeft(a)
    THEN Retry
    ELSE Ends(Returned(Envelope("data", GenericText)))

AdapterRequestError(a) ==
    IF HasAttemptsLeft(a)
    THEN Retry
    ELSE Ends(RaisedException("Network", "Network error"))

\* the try body after the HTTP call returned a response
AdapterSuccess(r) ==
    IF r.status = 204
    THEN Ends(Returned(SuccessTrue))
    ELSE IF JsonKind(r.text) = "invalid"
         \* response.json() raises; "except Exception" logs and re-raises
         THEN Ends(RaisedException("JSONDecodeError", "Expecting value"))
         ELSE Ends(Returned(AdapterNormalize(r.text)))

AdapterStep(r, a) ==
    IF r = NetworkFailure THEN AdapterRequestError(a)
    ELSE IF RaisesForStatus(r) THEN AdapterStatusError(r, a)
    ELSE AdapterSuccess(r)

\* a caller awaits adapter._make_request(method, ...)
AdapterCall ==
    /\ pc = "idle"
    /\ \E m \in AdapterMethods : method' = m
    /\ via' = "adapter"
    /\ pc' = "request"
    /\ attempt' = 0
    /\ UNCHANGED <<execs, delays, hist, outcome>>
    /\ UNCHANGED <<normVars, bulkVars, statsVars, toolVars>>

\* One iteration of "for attempt in range(self.max_retries)" up to its return,
\* raise or time.sleep.
AdapterAttempt ==
    /\ pc = "request"
    /\ via = "adapter"
    /\ IF attempt >= max_retries
       THEN \* the statement after the loop
            /\ outcome' = RaisedException("Exhausted", "Request failed after all retries")
            /\ pc' = "done"
            /\ UNCHANGED <<execs, delays, hist>>
       ELSE IF ~SupportedMethod(method)
       THEN \* raise ValueError inside the try; "except Exception" re-raises it
            /\ outcome' = RaisedException("ValueError", "Unsupported HTTP method")
            /\ pc' = "done"
            /\ UNCHANGED <<execs, delays, hist>>
       ELSE \E r \in Responses :
            LET s == AdapterStep(r, attempt) IN
            /\ execs' = execs + 1
            /\ hist' = Append(hist, r)
            /\ IF s.retry
               THEN /\ delays' = Append(delays, BackoffDelay(attempt))
                    /\ pc' = "backoff"
                    /\ UNCHANGED outcome
               ELSE /\ outcome' = s.out
                    /\ pc' = "done"
                    /\ UNCHANGED delays
    /\ UNCHANGED <<via, method, attempt>>
    /\ UNCHANGED <<normVars, bulkVars, statsVars, toolVars>>

\* time.sleep returns and "continue" starts the next iteration
AdapterBackoff ==
    /\ pc = "backoff"
    /\ via = "adapter"
    /\ attempt' = attempt + 1
    /\ pc' = "request"
    /\ UNCHANGED <<via, method, execs, delays, hist, outcome>>
    /\ UNCHANGED <<normVars, bulkVars, statsVars, toolVars>>

----------------------------------------------------------------------------
(* BaseService._get / _post / _put / _delete: the request helpers the      *)
(* domain services (DeckService, FlashcardService, TagService) call.       *)

ServiceMethods == {"GET", "POST", "PUT", "DELETE"}

\* "response.json() if response.content else {"success": True}" in _delete;
\* plain "response.json()" in _get, _post and _put.
ServiceBody(m, r) ==
    IF m = "DELETE" /\ r.text = EmptyText
    THEN Returned(SuccessTrue)
    ELSE IF JsonKind(r.text) = "invalid"
         THEN RaisedException("JSONDecodeError", "Expecting value")
         ELSE Returned(Envelope("none", r.text))

\* the whole helper: one client call, raise_for_status, decode; every except
\* clause logs and re-raises
ServiceStep(m, r) ==
    IF r = NetworkFailure THEN RaisedException("RequestError", "All connection attempts failed")
    ELSE IF RaisesForStatus(r) THEN RaisedStatusError(r)
    ELSE ServiceBody(m, r)

\* a domain service awaits self._get / _post / _put / _delete
ServiceCall ==
    /\ pc = "idle"
    /\ \E m \in ServiceMethods : method' = m
    /\ via' = "service"
    /\ pc' = "request"
    /\ attempt' = 0
    /\ UNCHANGED <<execs, delays, hist, outcome>>
    /\ UNCHANGED <<normVars, bulkVars, statsVars, toolVars>>

\* the helper as it would be if it ran the adapter's retry loop
ServiceAttemptThroughExecutor ==
    /\ pc = "request"
    /\ via = "service"
    /\ \E r \in Responses :
        LET s == AdapterStep(r, attempt) IN
        /\ execs' = execs + 1
        /\ hist' = Append(hist, r)
        /\ IF s.retry
           THEN /\ delays' = Append(delays, BackoffDelay(attempt))
                /\ attempt' = attempt + 1
                /\ pc' = "request"
                /\ UNCHANGED outcome
           ELSE /\ outcome' = ServiceStep(method, r)
                /\ pc' = "done"
                /\ UNCHANGED <<delays, attempt>>
    /\ UNCHANGED <<via, method>>
    /\ UNCHANGED <<normVars, bulkVars, statsVars, toolVars>>

ServiceAttempt ==
    /\ pc = "request"
    /\ via = "service"
    /\ \E r \in Responses :
        /\ execs' = execs + 1
        /\ hist' = Append(hist, r)
        /\ outcome' = ServiceStep(method, r)
    /\ pc' = "done"
    /\ UNCHANGED <<via, method, attempt, delays>>
    /\ UNCHANGED <<normVars, bulkVars, statsVars, toolVars>>

----------------------------------------------------------------------------
(* BaseService._normalize_response.                                        *)

\* longest "data" array of the envelopes examined
MaxItems == 2

\* JSON values. A list carries its items; a dict carries the names of its
\* fields; "str" is a non-empty string and "null" is None.
Json(t, items, keys) == [t |-> t, items |-> items, keys |-> keys]

ItemFields == {"front", "back", "name"}

\* what an element of an array can be: an object with any of the fields, a
\* string, or null
Items ==
    {Json("dict", <<>>, k) : k \in SUBSET ItemFields}
        \cup {Json("str", <<>>, {}), Json("null", <<>>, {})}

Arrays == UNION {[1..n -> Items] : n \in 0..MaxItems}

\* what the "data" field can hold: an array, an object, a string or null
DataValues ==
    {Json("list", a, {}) : a \in Arrays}
        \cup {Json("dict", <<>>, {"id"}), Json("str", <<>>, {}), Json("null", <<>>, {})}

\* what the resource-named and metadata fields hold in the envelopes examined
OtherValues ==
    {Json("list", <<>>, {}), Json("list", <<Json("dict", <<>>, {"name"})>>, {}), Json("str", <<>>, {})}

\* d[k] = v
Put(d, k, v) == [x \in DOMAIN d \cup {k} |-> IF x = k THEN v ELSE d[x]]

\* del d[k]
Del(d, k) == [x \in DOMAIN d \ {k} |-> d[x]]

\* the dicts of S, and each of them with field k set to a value of V
WithField(S, k, V) == S \cup {Put(e, k, v) : e \in S, v \in V}

\* the envelopes examined: every dict whose "data", if present, is a DataValue
\* and whose "decks", "flashcards" and "message", if present, are OtherValues
Envelopes ==
    WithField(WithField(WithField(WithField({<< >>}, "data", DataValues),
                                  "decks", OtherValues),
                        "flashcards", OtherValues),
              "message", OtherValues)

\* Python truth value of a JSON value
Truthy(v) ==
    CASE v.t = "list" -> v.items # <<>>
      [] v.t = "dict" -> v.keys # {}
      [] v.t = "str" -> TRUE
      [] OTHER -> FALSE

\* "if 'front' in first_item and 'back' in first_item"
LooksLikeFlashcard(item) == "front" \in item.keys /\ "back" \in item.keys

\* "elif 'name' in first_item"
LooksLikeDeck(item) == "name" \in item.keys

\* the if/else tree that stores data_items under a key of normalized
ClassifyDropsFirst(nrm, data_items) ==
    IF Truthy(data_items) /\ data_items.t = "list"
    THEN LET first_item == data_items.items[1] IN
         IF Truthy(first_item) /\ first_item.t = "dict"
         THEN IF "front" \in first_item.keys /\ "back" \in first_item.keys
              THEN Put(nrm, "flashcards", data_items)
              ELSE IF "name" \in first_item.keys
                   THEN Put(nrm, "decks", data_items)
                   ELSE Put(nrm, "data", Json("list", Tail(data_items.items), {}))
         ELSE Put(nrm, "data", data_items)
    ELSE Put(nrm, "data", data_items)

Classify(nrm, data_items) ==
    IF Truthy(data_items) /\ data_items.t = "list"
    THEN LET first_item == data_items.items[1] IN
         IF Truthy(first_item) /\ first_item.t = "dict"
         THEN IF LooksLikeFlashcard(first_item)
              THEN Put(nrm, "flashcards", data_items)
              ELSE IF LooksLikeDeck(first_item)
                   THEN Put(nrm, "decks", data_items)
                   ELSE Put(nrm, "data", data_items)
         ELSE Put(nrm, "data", data_items)
    ELSE Put(nrm, "data", data_items)

\* "Remove 'data' to avoid duplication (only if we normalized it)"
RemoveDuplicateKeepsData(nrm) == nrm

RemoveDuplicate(nrm) ==
    IF "decks" \in DOMAIN nrm \/ "flashcards" \in DOMAIN nrm
    THEN IF "data" \in DOMAIN nrm THEN Del(nrm, "data") ELSE nrm
    ELSE nrm

_normalize_response(response) ==
    IF "data" \in DOMAIN response /\ "decks" \notin DOMAIN response
                                  /\ "flashcards" \notin DOMAIN response
    THEN RemoveDuplicate(Classify(response, response["data"]))
    ELSE response

\* a caller passes a response to _normalize_response
Normalize ==
    /\ npc = 0
    /\ normalized' = _normalize_response(envelope)
    /\ npc' = 1
    /\ UNCHANGED <<envelope, renormalized, httpVars, bulkVars, statsVars, toolVars>>

\* the value returned is passed to _normalize_response again
NormalizeAgain ==
    /\ npc = 1
    /\ renormalized' = _normalize_response(normalized)
    /\ npc' = 2
    /\ UNCHANGED <<envelope, normalized, httpVars, bulkVars, statsVars, toolVars>>

NormIdle ==
    /\ npc = 0
    /\ envelope = << >>
    /\ normalized = << >>
    /\ renormalized = << >>

NormInit ==
    /\ npc = 0
    /\ envelope \in Envelopes
    /\ normalized = << >>
    /\ renormalized = << >>

NormNext == Normalize \/ NormalizeAgain

----------------------------------------------------------------------------
(* assign_tags_to_flashcards, the bulk tag-assignment tool.                *)

\* longest flashcard_ids list of the invocations examined
MaxIds == 3

\* invocations of the tool in a row
MaxCalls == 2

\* longest flashcard_ids list of the invocations that are repeated
MaxRepeatedIds == 2

\* longest batch of the invocations that overflow the failure sample
MaxBatch == 7

\* "len(flashcard_ids) > 50"
MaxFlashcardIds == 50

\* "len(v) > 100" of AssignTagsToFlashcardsParams.validate_flashcard_ids
MaxDeclaredIds == 100

\* "failed_flashcards[:5]"
FailureSampleSize == 5

\* the upstream's decks, as list_decks_mcp returns them
UpstreamDecks == <<[id |-> 1, name |-> "Spanish"], [id |-> 2, name |-> "French"]>>

\* the upstream's flashcards when the tool is invoked: card 1 of the deck
\* Spanish and untagged (tagId 0 is null), card 2 of Spanish bearing tag 1,
\* card 3 of the deck French. No flashcard has id 9.
UpstreamCards ==
    (1 :> [deckId |-> 1, tagId |-> 0, front |-> "hola", back |-> "hello", difficulty |-> 1])
    @@ (2 :> [deckId |-> 1, tagId |-> 1, front |-> "ser", back |-> "to be", difficulty |-> 3])
    @@ (3 :> [deckId |-> 2, tagId |-> 0, front |-> "chat", back |-> "cat", difficulty |-> 2])

FlashcardIds == {1, 2, 3, 9}

\* the tags a deck can have when the tool is invoked
TagListings ==
    {<< >>,
     <<[id |-> 1, name |-> "Grammar"]>>,
     <<[id |-> 2, name |-> "Verbs"], [id |-> 1, name |-> "Grammar"]>>}

DeckNames == {"spanish", "Latin", "a|b"}

TagNames == {"grammar", "Verbs", "Nouns", " "}

IdLists == UNION {[1..n -> FlashcardIds] : n \in 1..MaxIds}

\* requests of more ids than the tool's limit, up to the declared limit
OversizeLists == {[i \in 1..n |-> 1] : n \in {MaxFlashcardIds + 1, MaxDeclaredIds}}

\* batches longer than the failure sample: an unknown id, a flashcard of
\* another deck and a flashcard of the deck, in turn
BatchLists ==
    {[i \in 1..n |-> CASE i % 3 = 1 -> 9 [] i % 3 = 2 -> 3 [] OTHER -> 1] :
        n \in (FailureSampleSize + 1)..MaxBatch}

BatchSelections == {[filter_criteria |-> "", flashcard_ids |-> ids] : ids \in BatchLists}

\* the selections of the invocations that are repeated
RepeatedSelections ==
    {[filter_criteria |-> "", flashcard_ids |-> ids] :
        ids \in UNION {[1..n -> FlashcardIds] : n \in 1..MaxRepeatedIds}}

\* the criteria AssignTagsToFlashcardsParams and the usage examples name
FilterCriteria == {"untagged", "all"}

\* What a request selects: a list of ids, or a criterion in place of the ids.
\* The tool's signature is (deck_name, tag_name, flashcard_ids), so a request
\* of the second kind reaches the tool with no ids.
Selections ==
    {[filter_criteria |-> "", flashcard_ids |-> ids] : ids \in IdLists \cup OversizeLists}
        \cup {[filter_criteria |-> fc, flashcard_ids |-> << >>] : fc \in FilterCriteria}

\* str.lower()
Lower(str) ==
    CASE str = "Spanish" -> "spanish"
      [] str = "French" -> "french"
      [] str = "Latin" -> "latin"
      [] str = "Grammar" -> "grammar"
      [] str = "Verbs" -> "verbs"
      [] str = "Nouns" -> "nouns"
      [] OTHER -> str

\* str.strip()
Strip(str) == IF str = " " THEN "" ELSE str

\* validate_deck_name
validate_deck_name(name) == name # "" /\ Strip(name) # "" /\ name # "a|b"

NoInfo == [deckId |-> 0, tagId |-> 0, front |-> "", back |-> "", difficulty |-> 0]

NoResult == [error |-> "", message |-> ""]

NoPrevious == [result |-> NoResult, updates |-> 0]

\* an error dict that says nothing more than its kind
ErrorResultWithoutMessage(error, message) == [error |-> error]

ErrorResult(error, message) == [error |-> error, message |-> message]

\* the "for deck in all_decks" scan: id of the first deck whose name matches, else 0
FindDeck(decks, name) ==
    LET hits == {i \in 1..Len(decks) : Lower(decks[i].name) = Lower(name)} IN
    IF hits = {} THEN 0 ELSE decks[CHOOSE i \in hits : \A j \in hits : i <= j].id

\* the "for tag in tags" scan: id of the first tag whose name matches, else 0
FindTag(tags, name) ==
    LET hits == {i \in 1..Len(tags) : Lower(tags[i].name) = Lower(name)} IN
    IF hits = {} THEN 0 ELSE tags[CHOOSE i \in hits : \A j \in hits : i <= j].id

Failure(id, reason) == [id |-> id, reason |-> reason]

\* str(e) of what a service call raises: the HTTPStatusError of a 401 or of a
\* 403 answer, or any other failure
RaisedReasons == {"401 Unauthorized", "403 Forbidden", "HTTPStatusError"}

\* the membership of the fetched flashcard is taken for granted
BelongsToDeckUnchecked(info, did) == TRUE

\* "if flashcard_info.get("deckId") != deck_id": the fetched flashcard is of the deck
BelongsToDeck(info, did) == info.deckId = did

\* a flashcard that bears any tag at all counts as already tagged
AlreadyTaggedWithAny(info, tid) == info.tagId # 0

\* "if current_tag_id == tag_id": the flashcard already bears the resolved tag
AlreadyTagged(info, tid) == info.tagId = tid

\* the "except Exception as e" of the loop body
ItemFailedSwallowed(failed, id, reason) == failed

ItemFailed(failed, id, reason) == Append(failed, Failure(id, reason))

\* the whole list, whatever the sample size
PrefixUncapped(seq, n) == seq

\* "failed_flashcards[:5]": list slicing
Prefix(seq, n) == SubSeq(seq, 1, IF Len(seq) < n THEN Len(seq) ELSE n)

\* the result dict built after the loop
BuildResult(ids, succ, skip, failed, did, tid, existed) ==
    LET base == [success |-> TRUE,
                 deck_id |-> did,
                 tag_id |-> tid,
                 flashcard_ids_requested |-> Len(ids),
                 successful_assignments |-> succ,
                 skipped_already_tagged |-> skip,
                 tag_created |-> ~existed]
    IN IF failed # << >>
       THEN base @@ [failed_assignments |-> Len(failed),
                     failures |-> Prefix(failed, FailureSampleSize)]
       ELSE base

\* The end of one loop iteration when a failed item ends the whole loop, as if
\* the only "except Exception" were the outer one.
AdvanceAborting(succ, skip, failed) ==
    /\ success_count' = succ
    /\ skipped_count' = skip
    /\ failed_flashcards' = failed
    /\ flashcard_info' = NoInfo
    /\ IF Len(failed) > Len(failed_flashcards)
       THEN /\ idx' = idx
            /\ bpc' = "done"
            /\ result' = ErrorResult("Internal server error", "Could not assign tags")
       ELSE IF idx < Len(flashcard_ids)
       THEN /\ idx' = idx + 1
            /\ bpc' = "get_flashcard"
            /\ UNCHANGED result
       ELSE /\ idx' = idx
            /\ bpc' = "done"
            /\ result' = BuildResult(flashcard_ids, succ, skip, failed, deck_id, tag_id, tag_existed)

\* The end of one loop iteration: the next item is fetched, or the loop is over
\* and the result is returned.
Advance(succ, skip, failed) ==
    /\ success_count' = succ
    /\ skipped_count' = skip
    /\ failed_flashcards' = failed
    /\ flashcard_info' = NoInfo
    /\ IF idx < Len(flashcard_ids)
       THEN /\ idx' = idx + 1
            /\ bpc' = "get_flashcard"
            /\ UNCHANGED result
       ELSE /\ idx' = idx
            /\ bpc' = "done"
            /\ result' = BuildResult(flashcard_ids, succ, skip, failed, deck_id, tag_id, tag_existed)

\* the arguments and locals of an invocation that has not started
IdleLocals ==
    [bpc |-> "idle", deck_name |-> "", tag_name |-> "", flashcard_ids |-> << >>,
     filter_criteria |-> "", deck_id |-> 0, tag_id |-> 0, tag_existed |-> FALSE, idx |-> 0,
     flashcard_info |-> NoInfo, success_count |-> 0, skipped_count |-> 0,
     failed_flashcards |-> << >>, result |-> NoResult, calls |-> 0]

\* cls.get_instance(): the first call constructs the service, and
\* BaseService.__init__ constructs its httpx.AsyncClient
get_instance(cls) ==
    /\ instances' = instances \cup {cls}
    /\ clients' = IF cls \in instances THEN clients ELSE clients + 1

\* The argument checks of the tool, up to "await list_decks_mcp()".
Validate(dn, tn, ids) ==
    IF ~validate_deck_name(dn)
    THEN /\ result' = ErrorResult("Invalid deck name", "Deck name format is invalid")
         /\ bpc' = "done"
    ELSE IF Strip(tn) = ""
    THEN /\ result' = ErrorResult("Invalid tag name", "Tag name cannot be empty")
         /\ bpc' = "done"
    ELSE IF Len(ids) = 0 \/ Len(ids) > MaxFlashcardIds
    THEN /\ result' = ErrorResult("Invalid flashcard_ids",
                                  "You must provide between 1 and 50 flashcard IDs")
         /\ bpc' = "done"
    ELSE /\ bpc' = "list_decks_mcp"
         /\ result' = NoResult

\* The tool is invoked.
Invoke ==
    /\ bpc = "idle"
    /\ \E dn \in DeckNames, tn \in TagNames, sel \in selections :
        /\ deck_name' = dn
        /\ tag_name' = tn
        /\ flashcard_ids' = sel.flashcard_ids
        /\ filter_criteria' = sel.filter_criteria
        /\ Validate(dn, tn, sel.flashcard_ids)
    /\ calls' = 1
    /\ UNCHANGED <<cards, deck_tags, deck_id, tag_id, tag_existed, idx, flashcard_info,
                   success_count, skipped_count, failed_flashcards, updates, previous,
                   tag_requests, selections, raised_reasons, other>>
    /\ IF bpc' = "list_decks_mcp" THEN get_instance("DeckService") ELSE UNCHANGED procVars
    /\ UNCHANGED callerVars
    /\ UNCHANGED <<httpVars, normVars, statsVars>>

\* The tool has returned and the client invokes it again with the same
\* arguments: the locals start afresh, the upstream keeps what was written.
InvokeAgain ==
    /\ bpc = "done"
    /\ calls < MaxCalls
    /\ calls' = calls + 1
    /\ previous' = [result |-> result, updates |-> Len(updates)]
    /\ Validate(deck_name, tag_name, flashcard_ids)
    /\ deck_id' = 0
    /\ tag_id' = 0
    /\ tag_existed' = FALSE
    /\ idx' = 0
    /\ flashcard_info' = NoInfo
    /\ success_count' = 0
    /\ skipped_count' = 0
    /\ failed_flashcards' = << >>
    /\ tag_requests' = << >>
    /\ UNCHANGED <<deck_name, tag_name, flashcard_ids, filter_criteria, cards, deck_tags,
                   updates, selections, raised_reasons, other>>
    /\ IF bpc' = "list_decks_mcp" THEN get_instance("DeckService") ELSE UNCHANGED procVars
    /\ UNCHANGED callerVars
    /\ UNCHANGED <<httpVars, normVars, statsVars>>

\* list_decks_mcp() completes: the deck lookup, up to "await get_deck_tags()".
DecksListed ==
    /\ bpc = "list_decks_mcp"
    /\ \/ \* the call raised: the outer "except Exception"
          /\ result' = ErrorResult("Internal server error", "Could not assign tags")
          /\ bpc' = "done"
          /\ UNCHANGED <<deck_id, tag_requests>>
       \/ LET found == FindDeck(UpstreamDecks, deck_name) IN
          /\ deck_id' = found
          /\ IF found = 0
             THEN /\ result' = ErrorResult("Deck not found", "Deck not found")
                                   @@ [available_decks |->
                                         [i \in 1..Len(UpstreamDecks) |-> UpstreamDecks[i].name]]
                  /\ bpc' = "done"
                  /\ UNCHANGED tag_requests
             ELSE /\ bpc' = "get_deck_tags"
                  /\ tag_requests' = Append(tag_requests, "get_deck_tags")
                  /\ UNCHANGED result
    /\ UNCHANGED <<deck_name, tag_name, flashcard_ids, cards, deck_tags, tag_id, tag_existed,
                   idx, flashcard_info, success_count, skipped_count, failed_flashcards, updates>>
    /\ UNCHANGED <<calls, previous, filter_criteria, selections, raised_reasons, other>>
    /\ IF bpc' = "get_deck_tags" THEN get_instance("TagService") ELSE UNCHANGED procVars
    /\ UNCHANGED callerVars
    /\ UNCHANGED <<httpVars, normVars, statsVars>>

\* TagService has a create_deck_tag: the create request is sent and awaited
create_deck_tag_sends ==
    /\ tag_requests' = Append(tag_requests, "create_tag")
    /\ bpc' = "create_deck_tag"
    /\ UNCHANGED <<idx, result>>

\* "await tag_service.create_deck_tag(deck_id, tag_data)" inside its try:
\* TagService defines no create_deck_tag, so the attribute lookup raises
\* AttributeError before any request is sent, and the "except Exception"
\* around it returns the error.
create_deck_tag ==
    /\ result' = ErrorResult("Failed to create tag", "Could not create tag")
    /\ bpc' = "done"
    /\ UNCHANGED <<idx, tag_requests>>

\* get_deck_tags() completes: the tag is resolved and the loop is entered, up to
\* the first "await get_flashcard()".
TagsListed ==
    /\ bpc = "get_deck_tags"
    /\ \/ \* the call raised: the outer "except Exception"
          /\ result' = ErrorResult("Internal server error", "Could not assign tags")
          /\ bpc' = "done"
          /\ UNCHANGED <<tag_id, tag_existed, idx, tag_requests>>
       \/ LET found == FindTag(deck_tags, tag_name) IN
          /\ tag_id' = found
          /\ tag_existed' = (found # 0)
          /\ IF found = 0
             THEN create_deck_tag
             ELSE /\ idx' = 1
                  /\ bpc' = "get_flashcard"
                  /\ UNCHANGED <<result, tag_requests>>
    /\ UNCHANGED <<deck_name, tag_name, flashcard_ids, cards, deck_tags, deck_id,
                   flashcard_info, success_count, skipped_count, failed_flashcards, updates>>
    /\ UNCHANGED <<calls, previous, filter_criteria, selections, raised_reasons, other>>
    /\ IF bpc' = "get_flashcard" THEN get_instance("FlashcardService") ELSE UNCHANGED procVars
    /\ UNCHANGED callerVars
    /\ UNCHANGED <<httpVars, normVars, statsVars>>

\* get_flashcard(flashcard_id) completes: the checks of the loop body, up to
\* "await update_flashcard()" or the end of the iteration.
ItemFetched ==
    /\ bpc = "get_flashcard"
    /\ LET id == flashcard_ids[idx] IN
       \/ \* the call raised (an HTTP error status, a network failure)
          /\ \E reason \in raised_reasons :
                Advance(success_count, skipped_count,
                        ItemFailed(failed_flashcards, id, reason))
          /\ UNCHANGED updates
       \/ \* the response has no "data", or an empty one
          /\ id \notin DOMAIN cards
          /\ Advance(success_count, skipped_count,
                     Append(failed_flashcards, Failure(id, "Flashcard not found")))
          /\ UNCHANGED updates
       \/ \* "data" is not an object: flashcard_info.get raises AttributeError
          /\ id \in DOMAIN cards
          /\ Advance(success_count, skipped_count,
                     ItemFailed(failed_flashcards, id, "AttributeError"))
          /\ UNCHANGED updates
       \/ \* "data" is the flashcard's record
          /\ id \in DOMAIN cards
          /\ IF ~BelongsToDeck(cards[id], deck_id)
             THEN /\ Advance(success_count, skipped_count,
                             Append(failed_flashcards,
                                    Failure(id, "Flashcard does not belong to deck")))
                  /\ UNCHANGED updates
             ELSE IF AlreadyTagged(cards[id], tag_id)
             THEN /\ Advance(success_count, skipped_count + 1, failed_flashcards)
                  /\ UNCHANGED updates
             ELSE /\ flashcard_info' = cards[id]
                  /\ updates' = Append(updates,
                                       [id |-> id,
                                        front |-> cards[id].front,
                                        back |-> cards[id].back,
                                        difficulty |-> cards[id].difficulty,
                                        deckId |-> deck_id,
                                        tagId |-> tag_id])
                  /\ bpc' = "update_flashcard"
                  /\ UNCHANGED <<idx, success_count, skipped_count, failed_flashcards, result>>
    /\ UNCHANGED <<deck_name, tag_name, flashcard_ids, cards, deck_tags, deck_id, tag_id,
                   tag_existed>>
    /\ UNCHANGED <<calls, previous, filter_criteria, tag_requests, selections, raised_reasons, other>>
    /\ UNCHANGED <<httpVars, normVars, statsVars, toolVars>>

\* the item is counted as updated whether the request succeeded or raised
ItemUpdatedCountsRaised ==
    /\ bpc = "update_flashcard"
    /\ LET id == flashcard_ids[idx]
           sent == [front |-> flashcard_info.front, back |-> flashcard_info.back,
                    difficulty |-> flashcard_info.difficulty, deckId |-> deck_id,
                    tagId |-> tag_id]
       IN
       \/ /\ cards' = [cards EXCEPT ![id] =
                          [deckId |-> sent.deckId, tagId |-> sent.tagId, front |-> sent.front,
                           back |-> sent.back, difficulty |-> sent.difficulty]]
          /\ Advance(success_count + 1, skipped_count, failed_flashcards)
       \/ /\ UNCHANGED cards
          /\ Advance(success_count + 1, skipped_count, failed_flashcards)
    /\ UNCHANGED <<deck_name, tag_name, flashcard_ids, deck_tags, deck_id, tag_id, tag_existed,
                   updates>>
    /\ UNCHANGED <<calls, previous, filter_criteria, tag_requests, selections, raised_reasons, other>>
    /\ UNCHANGED <<httpVars, normVars, statsVars, toolVars>>

\* update_flashcard(flashcard_id, update_data) completes.
ItemUpdated ==
    /\ bpc = "update_flashcard"
    /\ LET id == flashcard_ids[idx]
           sent == [front |-> flashcard_info.front, back |-> flashcard_info.back,
                    difficulty |-> flashcard_info.difficulty, deckId |-> deck_id,
                    tagId |-> tag_id]
       IN
       \/ \* the upstream applied the update
          /\ cards' = [cards EXCEPT ![id] =
                          [deckId |-> sent.deckId, tagId |-> sent.tagId, front |-> sent.front,
                           back |-> sent.back, difficulty |-> sent.difficulty]]
          /\ Advance(success_count + 1, skipped_count, failed_flashcards)
       \/ \* the call raised
          /\ UNCHANGED cards
          /\ \E reason \in raised_reasons :
                Advance(success_count, skipped_count,
                        ItemFailed(failed_flashcards, id, reason))
    /\ UNCHANGED <<deck_name, tag_name, flashcard_ids, deck_tags, deck_id, tag_id, tag_existed,
                   updates>>
    /\ UNCHANGED <<calls, previous, filter_criteria, tag_requests, selections, raised_reasons, other>>
    /\ UNCHANGED <<httpVars, normVars, statsVars, toolVars>>

BulkIdle ==
    /\ bpc = "idle"
    /\ deck_name = ""
    /\ tag_name = ""
    /\ flashcard_ids = << >>
    /\ filter_criteria = ""
    /\ cards = UpstreamCards
    /\ deck_tags = << >>
    /\ deck_id = 0
    /\ tag_id = 0
    /\ tag_existed = FALSE
    /\ idx = 0
    /\ flashcard_info = NoInfo
    /\ success_count = 0
    /\ skipped_count = 0
    /\ failed_flashcards = << >>
    /\ updates = << >>
    /\ result = NoResult
    /\ calls = 0
    /\ previous = NoPrevious
    /\ tag_requests = << >>
    /\ selections = {}
    /\ raised_reasons = {}
    /\ other = IdleLocals

BulkInit ==
    /\ bpc = "idle"
    /\ deck_name = ""
    /\ tag_name = ""
    /\ flashcard_ids = << >>
    /\ filter_criteria = ""
    /\ cards = UpstreamCards
    /\ deck_tags \in TagListings
    /\ deck_id = 0
    /\ tag_id = 0
    /\ tag_existed = FALSE
    /\ idx = 0
    /\ flashcard_info = NoInfo
    /\ success_count = 0
    /\ skipped_count = 0
    /\ failed_flashcards = << >>
    /\ updates = << >>
    /\ result = NoResult
    /\ calls = 0
    /\ previous = NoPrevious
    /\ tag_requests = << >>
    /\ selections = Selections
    /\ raised_reasons = {"HTTPStatusError"}
    /\ other = IdleLocals

BatchInit ==
    /\ bpc = "idle"
    /\ deck_name = ""
    /\ tag_name = ""
    /\ flashcard_ids = << >>
    /\ filter_criteria = ""
    /\ cards = UpstreamCards
    /\ deck_tags \in TagListings
    /\ deck_id = 0
    /\ tag_id = 0
    /\ tag_existed = FALSE
    /\ idx = 0
    /\ flashcard_info = NoInfo
    /\ success_count = 0
    /\ skipped_count = 0
    /\ failed_flashcards = << >>
    /\ updates = << >>
    /\ result = NoResult
    /\ calls = 0
    /\ previous = NoPrevious
    /\ tag_requests = << >>
    /\ selections = BatchSelections
    /\ raised_reasons = {"HTTPStatusError"}
    /\ other = IdleLocals

RepeatedInit ==
    /\ bpc = "idle"
    /\ deck_name = ""
    /\ tag_name = ""
    /\ flashcard_ids = << >>
    /\ filter_criteria = ""
    /\ cards = UpstreamCards
    /\ deck_tags \in TagListings
    /\ deck_id = 0
    /\ tag_id = 0
    /\ tag_existed = FALSE
    /\ idx = 0
    /\ flashcard_info = NoInfo
    /\ success_count = 0
    /\ skipped_count = 0
    /\ failed_flashcards = << >>
    /\ updates = << >>
    /\ result = NoResult
    /\ calls = 0
    /\ previous = NoPrevious
    /\ tag_requests = << >>
    /\ selections = RepeatedSelections
    /\ raised_reasons = {"HTTPStatusError"}
    /\ other = IdleLocals

\* the selections of RepeatedSelections, against an upstream whose failures
\* include 401 and 403 answers
AuthInit ==
    /\ bpc = "idle"
    /\ deck_name = ""
    /\ tag_name = ""
    /\ flashcard_ids = << >>
    /\ filter_criteria = ""
    /\ cards = UpstreamCards
    /\ deck_tags \in TagListings
    /\ deck_id = 0
    /\ tag_id = 0
    /\ tag_existed = FALSE
    /\ idx = 0
    /\ flashcard_info = NoInfo
    /\ success_count = 0
    /\ skipped_count = 0
    /\ failed_flashcards = << >>
    /\ updates = << >>
    /\ result = NoResult
    /\ calls = 0
    /\ previous = NoPrevious
    /\ tag_requests = << >>
    /\ selections = RepeatedSelections
    /\ raised_reasons = RaisedReasons
    /\ other = IdleLocals

\* The event loop runs the other invocation: the one running has reached an
\* await or has returned, its arguments and locals are set aside and those of
\* the other are taken up. What is upstream is common to both.
Switch ==
    /\ other' = [bpc |-> bpc, deck_name |-> deck_name, tag_name |-> tag_name,
                 flashcard_ids |-> flashcard_ids, filter_criteria |-> filter_criteria,
                 deck_id |-> deck_id, tag_id |-> tag_id, tag_existed |-> tag_existed,
                 idx |-> idx, flashcard_info |-> flashcard_info,
                 success_count |-> success_count, skipped_count |-> skipped_count,
                 failed_flashcards |-> failed_flashcards, result |-> result, calls |-> calls]
    /\ bpc' = other.bpc
    /\ deck_name' = other.deck_name
    /\ tag_name' = other.tag_name
    /\ flashcard_ids' = other.flashcard_ids
    /\ filter_criteria' = other.filter_criteria
    /\ deck_id' = other.deck_id
    /\ tag_id' = other.tag_id
    /\ tag_existed' = other.tag_existed
    /\ idx' = other.idx
    /\ flashcard_info' = other.flashcard_info
    /\ success_count' = other.success_count
    /\ skipped_count' = other.skipped_count
    /\ failed_flashcards' = other.failed_flashcards
    /\ result' = other.result
    /\ calls' = other.calls
    /\ UNCHANGED <<cards, deck_tags, updates, tag_requests, previous, selections, raised_reasons>>
    /\ UNCHANGED <<httpVars, normVars, statsVars, toolVars>>

\* the selection of the invocations that run concurrently
ConcurrentSelections == {[filter_criteria |-> "", flashcard_ids |-> <<1>>]}

\* two invocations to come, both for flashcard 1
ConcurrentInit ==
    /\ bpc = "idle"
    /\ deck_name = ""
    /\ tag_name = ""
    /\ flashcard_ids = << >>
    /\ filter_criteria = ""
    /\ cards = UpstreamCards
    /\ deck_tags \in TagListings
    /\ deck_id = 0
    /\ tag_id = 0
    /\ tag_existed = FALSE
    /\ idx = 0
    /\ flashcard_info = NoInfo
    /\ success_count = 0
    /\ skipped_count = 0
    /\ failed_flashcards = << >>
    /\ updates = << >>
    /\ result = NoResult
    /\ calls = 0
    /\ previous = NoPrevious
    /\ tag_requests = << >>
    /\ selections = ConcurrentSelections
    /\ raised_reasons = {"HTTPStatusError"}
    /\ other = IdleLocals

BulkNext == Invoke \/ DecksListed \/ TagsListed \/ ItemFetched \/ ItemUpdated

----------------------------------------------------------------------------
(* get_deck_stats, the deck statistics tool, and its estimator.            *)

\* largest flashcardsCount of the deck listings examined
MaxCards == 12

\* longest tag list of the deck listings examined
MaxTags == 3

\* {}
EmptyDict == [k \in {} |-> 0]

\* JSON null where an object is expected
Null == [null |-> TRUE]

\* isinstance(v, dict), for a value that is an object or null
IsDict(v) == "null" \notin DOMAIN v

\* d.get(k, default); calling it on null raises AttributeError, which the
\* callers test for with IsDict
Get(d, k, default) == IF k \in DOMAIN d THEN d[k] ELSE default

\* round(num / den * scale): the nearest integer, a tie going to the even one
Round(num, den, scale) ==
    LET q == (num * scale) \div den
        r == (num * scale) % den
    IN IF 2 * r < den THEN q
       ELSE IF 2 * r > den THEN q + 1
       ELSE IF q % 2 = 0 THEN q ELSE q + 1

\* the tags of a listed deck, in listing order
ListedTags(n) ==
    [i \in 1..n |-> [id |-> i,
                     name |-> CASE i = 1 -> "Grammar" [] i = 2 -> "Verbs"
                                [] i = 3 -> "Nouns" [] OTHER -> "Idioms"]]

\* The entry of the deck Spanish in what list_decks_mcp returns: "stats" and
\* "tags" are there, or missing, or "stats" is null.
DeckEntries ==
    LET named == [id |-> 1, name |-> "Spanish"]
        counted == {Put(Put(named, "stats", [flashcardsCount |-> t]), "tags", ListedTags(n)) :
                        t \in 0..MaxCards, n \in 0..MaxTags}
    IN counted
        \cup {named, Put(named, "tags", ListedTags(2)), Put(named, "stats", EmptyDict),
              Put(Put(named, "stats", Null), "tags", ListedTags(2))}

\* the organizationMetrics and studyMetrics a stats payload can carry
OrganizationMetricsValues ==
    {Null,
     [tagsCount |-> 2],
     [organizationStatus |-> "organized", organizationPercentage |-> 1000, tagsCount |-> 2],
     [organizationStatus |-> "needs_organization", organizationPercentage |-> 500,
      tagsCount |-> 2]}

StudyMetricsValues ==
    {Null,
     [totalReviews |-> 4, accuracyRate |-> 75, currentStreak |-> 2, averageDifficulty |-> 3]}

\* the non-empty "stats" objects the upstream statistics endpoint can answer
StatsPayloads ==
    WithField(WithField(WithField({[totalFlashcards |-> t] : t \in {0, MaxCards}},
                                  "organizationMetrics", OrganizationMetricsValues),
                        "studyMetrics", StudyMetricsValues),
              "untaggedFlashcards", {6})

\* What deck_service.get_deck_stats returns when it does not raise. A "data"
\* that is an object passes through _normalize_response as it is.
StatsResponses ==
    {[success |-> TRUE],
     [success |-> TRUE, data |-> Null],
     [success |-> TRUE, data |-> [lastUpdated |-> "2025-06-01T00:00:00Z"]],
     [success |-> TRUE, data |-> [stats |-> Null]],
     [success |-> TRUE, data |-> [stats |-> EmptyDict]]}
        \cup {[success |-> TRUE, data |-> [stats |-> p, lastUpdated |-> "2025-06-01T00:00:00Z"]] :
                p \in StatsPayloads}
        \cup {[success |-> TRUE, data |-> [stats |-> [totalFlashcards |-> MaxCards]]]}

\* the remainder goes to one tag too many
EvenShareOffByOne(i, flashcards_per_tag, remainder) ==
    flashcards_per_tag + (IF i <= remainder THEN 1 ELSE 0)

\* "count = flashcards_per_tag + (1 if i < remainder else 0)", i counted from 0
EvenShare(i, flashcards_per_tag, remainder) ==
    flashcards_per_tag + (IF i < remainder THEN 1 ELSE 0)

\* The estimate from the deck listing alone. Numbers rounded to one decimal
\* are held in tenths, those rounded to two decimals in hundredths.
_calculate_basic_stats_from_mcp_data(mcp_mock_data, basic_info) ==
    LET tags_data == Get(mcp_mock_data, "tags", << >>)
        mcp_stats == Get(basic_info, "stats", EmptyDict)
        total_flashcards == Get(mcp_stats, "flashcardsCount", 0)
        tags_count == Len(tags_data)
        tagged_flashcards == IF tags_count > 0 THEN total_flashcards ELSE 0
        difference == total_flashcards - tagged_flashcards
        untagged_flashcards == IF difference > 0 THEN difference ELSE 0
        organization_percentage ==
            IF total_flashcards > 0 THEN Round(tagged_flashcards, total_flashcards, 1000) ELSE 0
        status ==
            IF total_flashcards = 0 THEN "empty"
            ELSE IF untagged_flashcards = 0 /\ tags_count > 0 THEN "organized"
            ELSE "needs_organization"
        flashcards_per_tag == total_flashcards \div tags_count
        remainder == total_flashcards % tags_count
        flashcards_by_tag ==
            IF tags_count > 0 /\ total_flashcards > 0
            THEN [k \in 1..tags_count |->
                    LET count == EvenShare(k - 1, flashcards_per_tag, remainder) IN
                    [tagId |-> tags_data[k].id,
                     tagName |-> tags_data[k].name,
                     count |-> count,
                     percentage |-> Round(count, total_flashcards, 1000)]]
            ELSE << >>
        average_tags_per_flashcard ==
            IF total_flashcards > 0 THEN Round(tags_count, total_flashcards, 100) ELSE 0
    IN [totalFlashcards |-> total_flashcards,
        untaggedFlashcards |-> untagged_flashcards,
        taggedFlashcards |-> tagged_flashcards,
        flashcardsByDifficulty |-> EmptyDict,
        flashcardsByTag |-> flashcards_by_tag,
        organizationMetrics |->
            [organizationPercentage |-> organization_percentage,
             organizationStatus |-> status,
             tagsCount |-> tags_count,
             averageTagsPerFlashcard |-> average_tags_per_flashcard],
        studyMetrics |->
            [totalReviews |-> Get(mcp_stats, "revisionsCount", 0),
             correctReviews |-> 0,
             incorrectReviews |-> 0,
             accuracyRate |-> 0,
             averageDifficulty |-> 0,
             currentStreak |-> 0]]

\* largest card_count of the deck-info responses examined
MaxInfoCards == 4

\* longest tag list of the deck-info responses examined
MaxInfoTags == 2

\* largest flashcard_count of a tag of the deck-info responses examined
MaxTagCount == 3

\* a difficulty_distribution: flashcards per difficulty level "1".."5"
Distribution(ones, twos) == ("1" :> ones) @@ ("2" :> twos)

\* the response test_stats_calculation_with_mock_data builds
MockDeckInfo ==
    [deck |-> [id |-> 6, name |-> "Japanese Learning", card_count |-> 11,
               difficulty_distribution |-> Distribution(8, 3)],
     tags |-> <<[id |-> 1, name |-> "Saludos", flashcard_count |-> 4],
                [id |-> 2, name |-> "Expresiones de Cortesia", flashcard_count |-> 5],
                [id |-> 3, name |-> "Frases de Comida", flashcard_count |-> 2]>>]

\* The deck-info responses the estimator is given: a deck with its card_count
\* and tags with their flashcard_count, whose sum is below, at or above the
\* card_count; a tag without a flashcard_count; no "deck" or "tags"; null.
DeckInfoResponses ==
    LET TagLists ==
            UNION {{[k \in 1..n |-> [id |-> k, name |-> ListedTags(n)[k].name,
                                     flashcard_count |-> counts[k]]] :
                        counts \in [1..n -> 0..MaxTagCount]} : n \in 0..MaxInfoTags}
    IN {[deck |-> [id |-> 1, name |-> "Spanish", card_count |-> t,
                   difficulty_distribution |-> dist],
         tags |-> tags] :
            t \in 0..MaxInfoCards, tags \in TagLists,
            dist \in {EmptyDict, Distribution(1, 1)}}
        \cup {MockDeckInfo, EmptyDict, Null,
              [deck |-> [id |-> 1, name |-> "Spanish", card_count |-> 1],
               tags |-> <<[id |-> 1, name |-> "Grammar"]>>]}

\* checks the untagged count before the total
DeckInfoStatusEmptyLast(total_flashcards, untagged_flashcards) ==
    IF untagged_flashcards = 0 THEN "organized"
    ELSE IF total_flashcards = 0 THEN "empty"
    ELSE "needs_organization"

\* "Determine organization status" of _calculate_basic_stats_from_deck_info
DeckInfoStatus(total_flashcards, untagged_flashcards) ==
    IF total_flashcards = 0 THEN "empty"
    ELSE IF untagged_flashcards = 0 THEN "organized"
    ELSE "needs_organization"

\* sum(tag.get("flashcard_count", 0) for tag in tags_data)
RECURSIVE SumFlashcardCounts(_)
SumFlashcardCounts(tags_data) ==
    IF tags_data = << >> THEN 0
    ELSE Get(Head(tags_data), "flashcard_count", 0) + SumFlashcardCounts(Tail(tags_data))

\* The estimate from a deck-info response with explicit per-tag counts; a null
\* response raises inside the try and leaves {}.
_calculate_basic_stats_from_deck_info(response, basic_info) ==
    IF ~IsDict(response) THEN EmptyDict
    ELSE
    LET deck_data == Get(response, "deck", EmptyDict)
        tags_data == Get(response, "tags", << >>)
        total_flashcards == Get(deck_data, "card_count", 0)
        tags_count == Len(tags_data)
        difficulty_distribution == Get(deck_data, "difficulty_distribution", EmptyDict)
        flashcards_by_difficulty ==
            [level \in {"1", "2", "3", "4", "5"} |-> Get(difficulty_distribution, level, 0)]
        flashcards_by_tag ==
            [k \in 1..tags_count |->
                [tagId |-> tags_data[k].id,
                 tagName |-> tags_data[k].name,
                 count |-> Get(tags_data[k], "flashcard_count", 0),
                 percentage |->
                    IF total_flashcards > 0
                    THEN Round(Get(tags_data[k], "flashcard_count", 0), total_flashcards, 1000)
                    ELSE 0]]
        tagged_flashcards == SumFlashcardCounts(tags_data)
        difference == total_flashcards - tagged_flashcards
        untagged_flashcards == IF difference > 0 THEN difference ELSE 0
        organization_percentage ==
            IF total_flashcards > 0 THEN Round(tagged_flashcards, total_flashcards, 1000) ELSE 0
        total_difficulty_weighted ==
            1 * flashcards_by_difficulty["1"] + 2 * flashcards_by_difficulty["2"]
                + 3 * flashcards_by_difficulty["3"] + 4 * flashcards_by_difficulty["4"]
                + 5 * flashcards_by_difficulty["5"]
        average_difficulty ==
            IF total_flashcards > 0 THEN Round(total_difficulty_weighted, total_flashcards, 100)
            ELSE 0
        average_tags_per_flashcard ==
            IF total_flashcards > 0 THEN Round(tagged_flashcards, total_flashcards, 100) ELSE 0
    IN [totalFlashcards |-> total_flashcards,
        untaggedFlashcards |-> untagged_flashcards,
        taggedFlashcards |-> tagged_flashcards,
        flashcardsByDifficulty |-> flashcards_by_difficulty,
        flashcardsByTag |-> flashcards_by_tag,
        organizationMetrics |->
            [organizationPercentage |-> organization_percentage,
             organizationStatus |-> DeckInfoStatus(total_flashcards, untagged_flashcards),
             tagsCount |-> tags_count,
             averageTagsPerFlashcard |-> average_tags_per_flashcard],
        studyMetrics |->
            [totalReviews |-> 0,
             correctReviews |-> 0,
             incorrectReviews |-> 0,
             accuracyRate |-> 0,
             averageDifficulty |-> average_difficulty,
             currentStreak |-> 0]]

\* _generate_stats_insights raises AttributeError: a .get on null
InsightsRaise(data, status) ==
    \/ status = "needs_organization" /\ ~IsDict(Get(data, "organizationMetrics", EmptyDict))
    \/ ~IsDict(Get(data, "studyMetrics", EmptyDict))
    \/ Get(data, "totalFlashcards", 0) > 0 /\ ~IsDict(Get(data, "organizationMetrics", EmptyDict))

\* The insights, each by its text without the numbers formatted into it.
_generate_stats_insights(data, status, backend_provided) ==
    LET study_metrics == Get(data, "studyMetrics", EmptyDict)
        organization_metrics == Get(data, "organizationMetrics", EmptyDict)
        source == IF backend_provided
                  THEN <<"Datos proporcionados por el backend">>
                  ELSE <<"Estadisticas calculadas desde informacion disponible">>
        organization ==
            CASE status = "empty" -> <<"Deck vacio">>
              [] status = "organized" -> <<"Deck completamente organizado">>
              [] status = "needs_organization" ->
                    IF Get(data, "untaggedFlashcards", 0) > 0
                    THEN <<"flashcards necesitan organizacion">>
                    ELSE <<"Necesita organizacion">>
              [] OTHER -> IF Get(data, "totalFlashcards", 0) = 0
                          THEN <<"Deck vacio">>
                          ELSE <<"Estado de organizacion desconocido">>
        study ==
            IF Get(study_metrics, "totalReviews", 0) > 0
            THEN <<"reviews totales">>
                    \o (IF Get(study_metrics, "currentStreak", 0) > 0
                        THEN <<"Racha actual">> ELSE << >>)
            ELSE <<"Sin reviews aun">>
        more ==
            IF Get(data, "totalFlashcards", 0) > 0
            THEN (IF Get(study_metrics, "averageDifficulty", 0) > 0
                  THEN <<"Dificultad promedio">> ELSE << >>)
                    \o (IF Get(organization_metrics, "tagsCount", 0) > 0
                        THEN <<"tags organizando el contenido">> ELSE << >>)
            ELSE << >>
    IN source \o organization \o study \o more

\* deck_service.get_deck_stats raised
CallRaised == [raised |-> TRUE]

\* deck_service.get_deck_stats raised the HTTPStatusError of a 401 or 403 answer
AuthRaised == {[raised |-> TRUE, status |-> s] : s \in {401, 403}}

\* "last_updated" when the endpoint gives none
DefaultLastUpdated == "2025-01-01T00:00:00Z"

\* an empty "stats" counts as a payload
BackendProvidedAcceptsEmpty(response) ==
    /\ "raised" \notin DOMAIN response
    /\ IsDict(Get(response, "data", EmptyDict))
    /\ LET raw_stats == Get(Get(response, "data", EmptyDict), "stats", EmptyDict) IN
       /\ IsDict(raw_stats)
       /\ IsDict(Get(raw_stats, "organizationMetrics", EmptyDict))

\* The first try block ends with backend_provided_stats = True: the call
\* returned, "data" is an object, its "stats" is a non-empty object (null is
\* falsy) and the organizationStatus could be read from it.
BackendProvided(response) ==
    /\ "raised" \notin DOMAIN response
    /\ IsDict(Get(response, "data", EmptyDict))
    /\ LET raw_stats == Get(Get(response, "data", EmptyDict), "stats", EmptyDict) IN
       /\ IsDict(raw_stats)
       /\ raw_stats # EmptyDict
       /\ IsDict(Get(raw_stats, "organizationMetrics", EmptyDict))

\* The fallback's try block: the mock deck info built from the listing entry and
\* the estimate computed from it; a null "stats" raises and leaves {}.
Fallback(info, did) ==
    LET mcp_stats == Get(info, "stats", EmptyDict)
        mcp_tags == Get(info, "tags", << >>)
    IN IF ~IsDict(mcp_stats) THEN EmptyDict
       ELSE _calculate_basic_stats_from_mcp_data(
                [deck |-> [id |-> did,
                           name |-> Get(info, "name", ""),
                           card_count |-> Get(mcp_stats, "flashcardsCount", 0),
                           difficulty_distribution |-> EmptyDict],
                 tags |-> [k \in 1..Len(mcp_tags) |->
                             [id |-> mcp_tags[k].id, name |-> mcp_tags[k].name,
                              flashcard_count |-> 0]]],
                info)

\* The tool is invoked: the argument check, up to "await list_decks_mcp()".
StatsInvoke ==
    /\ spc = "idle"
    /\ \E dn \in DeckNames :
        /\ stats_deck_name' = dn
        /\ IF ~validate_deck_name(dn)
           THEN /\ stats_result' = ErrorResult("Invalid deck name", "Deck name format is invalid")
                /\ spc' = "done"
           ELSE /\ spc' = "list_decks_mcp"
                /\ UNCHANGED stats_result
    /\ UNCHANGED <<listed_decks, deck_basic_info, stats_response, stats_data,
                   organization_status, backend_provided_stats>>
    /\ UNCHANGED <<epc, deck_info_response, calculated_stats>>
    /\ IF spc' = "list_decks_mcp" THEN get_instance("DeckService") ELSE UNCHANGED procVars
    /\ UNCHANGED callerVars
    /\ UNCHANGED <<httpVars, normVars, bulkVars>>

\* list_decks_mcp() completes: the deck lookup, up to "await get_deck_stats()".
StatsDecksListed ==
    /\ spc = "list_decks_mcp"
    /\ \/ \* the call raised: the outer "except Exception"
          /\ stats_result' = ErrorResult("Internal server error", "Could not get deck statistics")
          /\ spc' = "done"
          /\ UNCHANGED deck_basic_info
       \/ LET hits == {i \in 1..Len(listed_decks) :
                          Lower(listed_decks[i].name) = Lower(stats_deck_name)}
          IN IF hits = {}
             THEN /\ stats_result' =
                        ErrorResult("Deck not found", "Deck not found")
                            @@ [available_decks |->
                                  [i \in 1..Len(listed_decks) |-> listed_decks[i].name]]
                  /\ spc' = "done"
                  /\ UNCHANGED deck_basic_info
             ELSE /\ deck_basic_info' = listed_decks[CHOOSE i \in hits : \A j \in hits : i <= j]
                  /\ spc' = "get_deck_stats"
                  /\ UNCHANGED stats_result
    /\ UNCHANGED <<listed_decks, stats_deck_name, stats_response, stats_data,
                   organization_status, backend_provided_stats>>
    /\ UNCHANGED <<epc, deck_info_response, calculated_stats>>
    /\ UNCHANGED <<httpVars, normVars, bulkVars, toolVars>>

\* deck_service.get_deck_stats(deck_id) completes, by returning or by raising:
\* the pass-through or the fallback, the insights and the result.
StatsFetched ==
    /\ spc = "get_deck_stats"
    /\ \E r \in StatsResponses \cup {CallRaised} \cup AuthRaised :
        LET provided == BackendProvided(r)
            response_data == Get(r, "data", EmptyDict)
            data == IF provided THEN Get(response_data, "stats", EmptyDict)
                    ELSE Fallback(deck_basic_info, deck_basic_info.id)
            status == Get(Get(data, "organizationMetrics", EmptyDict),
                          "organizationStatus", "unknown")
            last_updated == IF provided
                            THEN Get(response_data, "lastUpdated", DefaultLastUpdated)
                            ELSE DefaultLastUpdated
        IN /\ stats_response' = r
           /\ stats_data' = data
           /\ organization_status' = status
           /\ backend_provided_stats' = provided
           /\ stats_result' =
                IF InsightsRaise(data, status)
                THEN ErrorResult("Internal server error", "Could not get deck statistics")
                ELSE [deck_name |-> stats_deck_name,
                      deck_id |-> deck_basic_info.id,
                      statistics |-> data,
                      insights |-> _generate_stats_insights(data, status, provided),
                      organization_status |-> status,
                      data_source |-> IF provided THEN "backend_stats"
                                      ELSE "calculated_fallback",
                      last_updated |-> last_updated]
    /\ spc' = "done"
    /\ UNCHANGED <<listed_decks, stats_deck_name, deck_basic_info>>
    /\ UNCHANGED <<epc, deck_info_response, calculated_stats>>
    /\ UNCHANGED <<httpVars, normVars, bulkVars, toolVars>>

StatsIdle ==
    /\ spc = "idle"
    /\ listed_decks = << >>
    /\ stats_deck_name = ""
    /\ deck_basic_info = EmptyDict
    /\ stats_response = EmptyDict
    /\ stats_data = EmptyDict
    /\ organization_status = "unknown"
    /\ backend_provided_stats = FALSE
    /\ stats_result = NoResult
    /\ epc = "idle"
    /\ deck_info_response = EmptyDict
    /\ calculated_stats = EmptyDict

StatsInit ==
    /\ spc = "idle"
    /\ listed_decks \in {<<e>> : e \in DeckEntries}
    /\ stats_deck_name = ""
    /\ deck_basic_info = EmptyDict
    /\ stats_response = EmptyDict
    /\ stats_data = EmptyDict
    /\ organization_status = "unknown"
    /\ backend_provided_stats = FALSE
    /\ stats_result = NoResult
    /\ epc = "idle"
    /\ deck_info_response = EmptyDict
    /\ calculated_stats = EmptyDict

StatsNext == StatsInvoke \/ StatsDecksListed \/ StatsFetched

\* run_test of test_stats_calculation_with_mock_data: the estimator applied to
\* a deck-info response.
EstimateFromDeckInfo ==
    /\ epc = "idle"
    /\ calculated_stats' =
            _calculate_basic_stats_from_deck_info(deck_info_response,
                                                  Get(deck_info_response, "deck", EmptyDict))
    /\ epc' = "done"
    /\ UNCHANGED deck_info_response
    /\ UNCHANGED <<spc, listed_decks, stats_deck_name, deck_basic_info, stats_response,
                   stats_data, organization_status, backend_provided_stats, stats_result>>
    /\ UNCHANGED <<httpVars, normVars, bulkVars, toolVars>>

\* no deck listing, and a deck-info response of DeckInfoResponses
EstimateInit ==
    /\ spc = "idle"
    /\ listed_decks = << >>
    /\ stats_deck_name = ""
    /\ deck_basic_info = EmptyDict
    /\ stats_response = EmptyDict
    /\ stats_data = EmptyDict
    /\ organization_status = "unknown"
    /\ backend_provided_stats = FALSE
    /\ stats_result = NoResult
    /\ epc = "idle"
    /\ deck_info_response \in DeckInfoResponses
    /\ calculated_stats = EmptyDict

EstimateNext == StatsNext \/ EstimateFromDeckInfo

----------------------------------------------------------------------------
(* list_flashcards, and the HTTP clients of the process.                   *)

\* invocations of list_flashcards examined
MaxListCalls == 2

\* the "limit" arguments examined: none, the default, one above the maximum
Limits == {0, 50, 101}

NoListArgs == [deck_name |-> "", limit |-> 0, all_cards |-> FALSE]

\* a flashcard as the normalizer sees it
FlashcardItem == Json("dict", << >>, {"front", "back"})

\* What GET /flashcards/deck/{id} answers: the flashcards under "data" or
\* under "flashcards".
ListResponses ==
    {[data |-> Json("list", [i \in 1..n |-> FlashcardItem], {})] : n \in 0..MaxItems}
        \cup {[flashcards |-> Json("list", <<FlashcardItem>>, {})]}

\* BaseService(): a service object of its own, with an httpx.AsyncClient of
\* its own
NewBaseService ==
    /\ clients' = clients + 1
    /\ UNCHANGED instances

\* The tool is invoked: the argument checks, up to "await list_decks_mcp()".
ListInvoke ==
    /\ lpc \in {"idle", "done"}
    /\ list_calls < MaxListCalls
    /\ list_calls' = list_calls + 1
    /\ \E dn \in DeckNames, limit \in Limits, all_cards \in BOOLEAN :
        /\ list_args' = [deck_name |-> dn, limit |-> limit, all_cards |-> all_cards]
        /\ IF ~validate_deck_name(dn)
           THEN /\ list_result' = ErrorResult("Invalid deck name", "Deck name format is invalid")
                /\ lpc' = "done"
                /\ UNCHANGED procVars
           ELSE IF ~all_cards /\ limit # 0 /\ (limit < 1 \/ limit > 100)
           THEN /\ list_result' = ErrorResult("Invalid limit", "Limit must be between 1 and 100")
                /\ lpc' = "done"
                /\ UNCHANGED procVars
           ELSE /\ list_result' = NoResult
                /\ lpc' = "list_decks_mcp"
                /\ get_instance("DeckService")
    /\ UNCHANGED <<httpVars, normVars, bulkVars, statsVars, editVars>>

\* list_decks_mcp() completes: the deck lookup, up to "await list_flashcards()".
ListDecksListed ==
    /\ lpc = "list_decks_mcp"
    /\ \/ \* the call raised: the outer "except Exception"
          /\ list_result' = ErrorResult("Internal server error", "Could not list flashcards")
          /\ lpc' = "done"
          /\ UNCHANGED procVars
       \/ IF FindDeck(UpstreamDecks, list_args.deck_name) = 0
          THEN /\ list_result' = ErrorResult("Deck not found", "Deck not found")
                                     @@ [available_decks |->
                                           [i \in 1..Len(UpstreamDecks) |-> UpstreamDecks[i].name]]
               /\ lpc' = "done"
               /\ UNCHANGED procVars
          ELSE /\ lpc' = "list_flashcards"
               /\ get_instance("FlashcardService")
               /\ UNCHANGED list_result
    /\ UNCHANGED <<list_args, list_calls>>
    /\ UNCHANGED <<httpVars, normVars, bulkVars, statsVars, editVars>>

\* flashcard_service.list_flashcards() completes: the service has normalized
\* the answer, the tool normalizes it again with a BaseService of its own and
\* returns the flashcards.
ListFetched ==
    /\ lpc = "list_flashcards"
    /\ \/ \* the call raised: the outer "except Exception"
          /\ list_result' = ErrorResult("Internal server error", "Could not list flashcards")
          /\ UNCHANGED procVars
       \/ \E r \in ListResponses :
            LET api_response == _normalize_response(r)
                normalized_response == _normalize_response(api_response)
                flashcards == Get(normalized_response, "flashcards", Json("list", << >>, {}))
            IN /\ NewBaseService
               /\ list_result' =
                    [deck_name |-> list_args.deck_name,
                     deck_id |-> FindDeck(UpstreamDecks, list_args.deck_name),
                     flashcards |-> flashcards,
                     total_count |-> Len(flashcards.items)]
    /\ lpc' = "done"
    /\ UNCHANGED <<list_args, list_calls>>
    /\ UNCHANGED <<httpVars, normVars, bulkVars, statsVars, editVars>>

ListNext == ListInvoke \/ ListDecksListed \/ ListFetched

\* None, for an optional str argument
NoValue == "(None)"

\* the arguments of update_flashcard examined; difficulty_level 0 is None
EditArgs ==
    [deck_name : DeckNames, flashcard_id : {1, 9}, front : {NoValue, "adios", " "},
     back : {NoValue, "bye"}, difficulty_level : {0, 5}]

\* validate_flashcard_content, for texts within the length limits
validate_flashcard_content(front, back) == Strip(front) # "" /\ Strip(back) # ""

\* "Use new values or keep current ones" and "Build complete update data"
EditUpdateData(args, current, did) ==
    [front |-> IF args.front # NoValue THEN Strip(args.front) ELSE current.front,
     back |-> IF args.back # NoValue THEN Strip(args.back) ELSE current.back,
     difficulty |-> IF args.difficulty_level # 0
                    THEN (IF args.difficulty_level < 3 THEN args.difficulty_level ELSE 3)
                    ELSE current.difficulty,
     deckId |-> did,
     tagId |-> current.tagId]

\* The tool is invoked: the argument check, up to "await get_flashcard()".
EditInvoke ==
    /\ upc = "idle"
    /\ \E args \in EditArgs :
        /\ edit_args' = args
        /\ IF ~validate_deck_name(args.deck_name)
           THEN /\ edit_result' = ErrorResult("Invalid deck name", "Deck name format is invalid")
                /\ upc' = "done"
                /\ UNCHANGED procVars
           ELSE /\ edit_result' = NoResult
                /\ upc' = "get_flashcard"
                /\ get_instance("FlashcardService")
    /\ UNCHANGED current_flashcard
    /\ UNCHANGED <<httpVars, normVars, bulkVars, statsVars, listVars>>

\* get_flashcard(flashcard_id) completes: up to "await list_decks_mcp()".
EditFetched ==
    /\ upc = "get_flashcard"
    /\ \/ \* the call raised: the outer "except Exception"
          /\ edit_result' = ErrorResult("Internal server error", "Could not update flashcard")
          /\ upc' = "done"
          /\ UNCHANGED <<current_flashcard, procVars>>
       \/ \* the response has no "data", or an empty one
          /\ edit_args.flashcard_id \notin DOMAIN cards
          /\ edit_result' = ErrorResult("Flashcard not found", "No flashcard found with ID")
          /\ upc' = "done"
          /\ UNCHANGED <<current_flashcard, procVars>>
       \/ \* "data" is the flashcard's record
          /\ edit_args.flashcard_id \in DOMAIN cards
          /\ current_flashcard' = cards[edit_args.flashcard_id]
          /\ upc' = "list_decks_mcp"
          /\ get_instance("DeckService")
          /\ UNCHANGED edit_result
    /\ UNCHANGED edit_args
    /\ UNCHANGED <<httpVars, normVars, bulkVars, statsVars, listVars>>

\* list_decks_mcp() completes: the deck lookup, the membership check and the
\* content check, up to "await update_flashcard()".
EditDecksListed ==
    /\ upc = "list_decks_mcp"
    /\ \/ \* the call raised: the outer "except Exception"
          /\ edit_result' = ErrorResult("Internal server error", "Could not update flashcard")
          /\ upc' = "done"
       \/ LET did == FindDeck(UpstreamDecks, edit_args.deck_name)
              update_data == EditUpdateData(edit_args, current_flashcard, did)
          IN IF did = 0
             THEN /\ edit_result' = ErrorResult("Deck not found", "No deck found with name")
                                        @@ [available_decks |->
                                              [i \in 1..Len(UpstreamDecks) |-> UpstreamDecks[i].name]]
                  /\ upc' = "done"
             ELSE IF current_flashcard.deckId # did
             THEN /\ edit_result' = ErrorResult("Flashcard not in deck",
                                                "Flashcard does not belong to deck")
                  /\ upc' = "done"
             ELSE IF ~validate_flashcard_content(update_data.front, update_data.back)
             THEN /\ edit_result' = ErrorResult("Invalid flashcard content",
                                                "Front content cannot be empty")
                  /\ upc' = "done"
             ELSE /\ upc' = "update_flashcard"
                  /\ UNCHANGED edit_result
    /\ UNCHANGED <<edit_args, current_flashcard, procVars>>
    /\ UNCHANGED <<httpVars, normVars, bulkVars, statsVars, listVars>>

\* flashcard_service.update_flashcard(flashcard_id, update_data) completes.
EditUpdated ==
    /\ upc = "update_flashcard"
    /\ \/ \* the upstream applied the update
          /\ cards' = [cards EXCEPT ![edit_args.flashcard_id] =
                          EditUpdateData(edit_args, current_flashcard,
                                         FindDeck(UpstreamDecks, edit_args.deck_name))]
          /\ edit_result' =
                [success |-> TRUE,
                 message |-> "Flashcard updated successfully",
                 changed_fields |->
                    (IF edit_args.front # NoValue THEN <<"front">> ELSE << >>)
                        \o (IF edit_args.back # NoValue THEN <<"back">> ELSE << >>)
                        \o (IF edit_args.difficulty_level # 0 THEN <<"difficulty">> ELSE << >>)]
       \/ \* the call raised: the outer "except Exception"
          /\ edit_result' = ErrorResult("Internal server error", "Could not update flashcard")
          /\ UNCHANGED cards
    /\ upc' = "done"
    /\ UNCHANGED <<edit_args, current_flashcard, procVars>>
    /\ UNCHANGED <<bpc, deck_name, tag_name, flashcard_ids, filter_criteria, deck_tags, deck_id,
                   tag_id, tag_existed, idx, flashcard_info, success_count, skipped_count,
                   failed_flashcards, updates, result, calls, previous, tag_requests,
                   selections, raised_reasons, other>>
    /\ UNCHANGED <<httpVars, normVars, statsVars, listVars>>

EditNext == EditInvoke \/ EditFetched \/ EditDecksListed \/ EditUpdated

\* no tool of these has been invoked and no service has been constructed
ToolIdle ==
    /\ lpc = "idle"
    /\ list_args = NoListArgs
    /\ list_result = NoResult
    /\ list_calls = 0
    /\ upc = "idle"
    /\ edit_args = EmptyDict
    /\ current_flashcard = NoInfo
    /\ edit_result = NoResult
    /\ instances = {}
    /\ clients = 0

----------------------------------------------------------------------------
(* The specifications.                                                     *)

HttpInit ==
    /\ pc = "idle"
    /\ via = "none"
    /\ method = ""
    /\ attempt = 0
    /\ execs = 0
    /\ delays = <<>>
    /\ hist = <<>>
    /\ outcome = NoOutcome

HttpNext == AdapterCall \/ AdapterAttempt \/ AdapterBackoff \/ ServiceCall \/ ServiceAttempt

\* the request layer alone
InitHttp == HttpInit /\ ToolIdle /\ NormIdle /\ BulkIdle /\ StatsIdle

SpecHttp == InitHttp /\ [][HttpNext]_vars

\* the normalizer alone, on every envelope of Envelopes
InitNorm == HttpInit /\ ToolIdle /\ NormInit /\ BulkIdle /\ StatsIdle

SpecNorm == InitNorm /\ [][NormNext]_vars

\* one invocation of assign_tags_to_flashcards
InitAssign == HttpInit /\ ToolIdle /\ NormIdle /\ BulkInit /\ StatsIdle

SpecAssign == InitAssign /\ [][BulkNext]_vars

\* one invocation of get_deck_stats
InitStats == HttpInit /\ ToolIdle /\ NormIdle /\ BulkIdle /\ StatsInit

SpecStats == InitStats /\ [][StatsNext]_vars

\* one invocation of assign_tags_to_flashcards for a batch of BatchLists
InitBatch == HttpInit /\ ToolIdle /\ NormIdle /\ BatchInit /\ StatsIdle

SpecBatch == InitBatch /\ [][BulkNext]_vars

\* invocations of assign_tags_to_flashcards in a row, each repeating the first
ReassignNext == BulkNext \/ InvokeAgain

InitReassign == HttpInit /\ ToolIdle /\ NormIdle /\ RepeatedInit /\ StatsIdle

SpecReassign == InitReassign /\ [][ReassignNext]_vars

\* the two estimators: get_deck_stats on a deck listing, or the estimate from a
\* deck-info response
InitEstimate == HttpInit /\ ToolIdle /\ NormIdle /\ BulkIdle /\ (StatsInit \/ EstimateInit)

SpecEstimate == InitEstimate /\ [][EstimateNext]_vars

\* the tools: assign_tags_to_flashcards or get_deck_stats is invoked
ToolsNext == BulkNext \/ StatsNext

InitTools == HttpInit /\ ToolIdle /\ NormIdle /\ ((RepeatedInit /\ StatsIdle) \/ (BulkIdle /\ StatsInit))

SpecTools == InitTools /\ [][ToolsNext]_vars

\* the tools against an upstream that answers 401 and 403 too
InitAuth == HttpInit /\ ToolIdle /\ NormIdle /\ ((AuthInit /\ StatsIdle) \/ (BulkIdle /\ StatsInit))

SpecAuth == InitAuth /\ [][ToolsNext]_vars

\* two invocations of assign_tags_to_flashcards, interleaved at their awaits
ConcurrentNext == BulkNext \/ Switch

InitConcurrent == HttpInit /\ ToolIdle /\ NormIdle /\ ConcurrentInit /\ StatsIdle

SpecConcurrent == InitConcurrent /\ [][ConcurrentNext]_vars

\* an invocation of assign_tags_to_flashcards and one of update_flashcard,
\* interleaved at their awaits
EditingNext == BulkNext \/ EditNext

SpecEditing == InitConcurrent /\ [][EditingNext]_vars

\* asyncio.sleep in the place of time.sleep: the event loop runs on
BackoffYields == FALSE

\* "time.sleep(self.retry_delay * (attempt + 1))" in an async def: the call
\* blocks the thread and with it the event loop
BackoffBlocks == TRUE

\* The event loop runs a step of another coroutine, an invocation of
\* get_deck_stats up to its deck lookup: it can whenever the request is
\* awaiting its response or is over, and while the request sleeps only if the
\* sleep lets it.
OtherCoroutineRuns ==
    /\ pc = "backoff" => ~BackoffBlocks
    /\ StatsInvoke \/ StatsDecksListed

\* a request through the adapter, and an invocation of get_deck_stats
BackoffNext == AdapterCall \/ AdapterAttempt \/ AdapterBackoff \/ OtherCoroutineRuns

\* a fresh process, with an account that has no deck
InitBackoff == HttpInit /\ ToolIdle /\ NormIdle /\ BulkIdle /\ StatsIdle

SpecBackoff == InitBackoff /\ [][BackoffNext]_vars

\* invocations of list_flashcards in a fresh process
InitClients == HttpInit /\ ToolIdle /\ NormIdle /\ BulkIdle /\ StatsIdle

SpecClients == InitClients /\ [][ListNext]_vars

\* The event loop resumes a coroutine whose awaited HTTP call has completed (the
\* client's timeout bounds the wait), and time.sleep returns.
SpecHttpFair ==
    /\ InitHttp
    /\ [][HttpNext]_vars
    /\ WF_vars(AdapterAttempt)
    /\ WF_vars(AdapterBackoff)
    /\ WF_vars(ServiceAttempt)

----------------------------------------------------------------------------
(* Claims about the request layer.                                         *)

\* the spec's retryable classes: HTTP status >= 500, or a connection/timeout failure
Retryable(r) == r = NetworkFailure \/ r.status >= 500

AllRetryable(h) == \A i \in 1..Len(h) : Retryable(h[i])

Last(h) == h[Len(h)]

ClientError(r) == r.status >= 400 /\ r.status < 500

\* the attempt succeeded: a 2xx response that is 204 or carries a decodable body
Succeeds(r) == r # NetworkFailure /\ r.status < 400 /\ (r.status = 204 \/ JsonKind(r.text) # "invalid")

AdapterRunning == via = "adapter" /\ pc \in {"request", "backoff"} /\ SupportedMethod(method)

AdapterDone == via = "adapter" /\ pc = "done" /\ SupportedMethod(method)

\* C1 (state part): while every attempt so far failed with a retryable class, at
\* most 3 HTTP executions have occurred, and the call has ended only after
\* exactly 3, raising Upstream (last failure a 5xx) or Network (last failure a
\* connection/timeout failure).
C1_BoundState ==
    (via = "adapter" /\ SupportedMethod(method) /\ AllRetryable(hist)) =>
        /\ execs = Len(hist)
        /\ execs <= 3
        /\ pc = "done" =>
            /\ execs = 3
            /\ outcome.kind = "raised"
            /\ outcome.err = IF Last(hist) = NetworkFailure THEN "Network" ELSE "Upstream"
        /\ pc # "done" => execs < 3

\* C1: for a call of _make_request whose every attempt fails with a retryable
\* class, exactly maxAttempts = 3 HTTP executions occur, never more, the call
\* then ends with a fatal Upstream (respectively Network) error, and a started
\* retry sequence always runs on to its end.
C1_RetryBound == [](C1_BoundState) /\ (AdapterRunning ~> AdapterDone)

C1_Witness ==
    /\ AdapterDone
    /\ execs = 3
    /\ AllRetryable(hist)
    /\ hist[1] = NetworkFailure
    /\ hist[3].status = 503
    /\ outcome.err = "Upstream"

\* C2: a 4xx response (401, 403, 404, 422 or any other) is never retried: it is
\* the last response of its call, the call is over, no backoff delay follows it,
\* and the call ended with the error of its class; any other 4xx is surfaced as
\* the raw HTTPStatusError carrying the upstream status and body.
C2_ClientErrorsFatal ==
    via = "adapter" =>
        \A i \in 1..Len(hist) :
            (hist[i] # NetworkFailure /\ ClientError(hist[i])) =>
                /\ i = Len(hist)
                /\ pc = "done"
                /\ execs = i
                /\ Len(delays) = i - 1
                /\ outcome.kind = "raised"
                /\ outcome.err =
                      CASE hist[i].status = 401 -> "Unauthorized"
                        [] hist[i].status = 403 -> "Forbidden"
                        [] hist[i].status = 404 -> "NotFound"
                        [] hist[i].status = 422 -> "Validation"
                        [] OTHER -> "HTTPStatusError"
                /\ outcome.err = "HTTPStatusError" =>
                      (outcome.status = hist[i].status /\ outcome.text = hist[i].text)

C2_Witness ==
    /\ AdapterDone
    /\ Len(hist) = 2
    /\ hist[1].status = 500
    /\ hist[2].status = 409
    /\ hist[2].text = PlainText
    /\ outcome.err = "HTTPStatusError"

C4_NeverRaises ==
    (via = "adapter" /\ pc = "done" /\ Len(hist) > 0
        /\ (Last(hist) = NetworkFailure \/ Last(hist).status >= 400)) =>
        outcome.kind = "value"

\* C4 as amended: a call of _make_request returns a value exactly when its last
\* attempt succeeded; every other terminal outcome (Unauthorized, Forbidden,
\* NotFound, Validation, Upstream, Network, any other 4xx, an undecodable body,
\* an unsupported method) reaches the caller as a raised exception.
C4_FailuresRaise ==
    (via = "adapter" /\ pc = "done") =>
        /\ outcome.kind \in {"value", "raised"}
        /\ outcome.kind = "value" <=> (Len(hist) > 0 /\ Succeeds(Last(hist)))
        /\ outcome.kind = "raised" =>
              outcome.err \in {"Unauthorized", "Forbidden", "NotFound", "Validation", "Upstream",
                               "Network", "HTTPStatusError", "JSONDecodeError", "ValueError"}
        /\ (Len(hist) > 0 /\ Last(hist) = NetworkFailure) =>
              (outcome.kind = "raised" /\ outcome.err = "Network")

C4_Witness ==
    /\ AdapterDone
    /\ Len(hist) = 3
    /\ Last(hist) = NetworkFailure
    /\ outcome.kind = "raised"
    /\ outcome.err = "Network"

\* C5 as claimed: a successful response with status 204 or with an empty body
\* is returned as {success: true}, for every method, by the adapter and by the
\* BaseService helpers.
C5_NoContentIsSuccessTrue ==
    (pc = "done" /\ Len(hist) > 0 /\ Last(hist) # NetworkFailure /\ Last(hist).status < 400
        /\ (Last(hist).status = 204 \/ Last(hist).text = EmptyText)) =>
        outcome = Returned(SuccessTrue)

\* C6 as claimed: on a 422 the error the caller receives carries the upstream's
\* message verbatim.
C6_ValidationMessageVerbatim ==
    (via = "adapter" /\ pc = "done" /\ Len(hist) > 0 /\ Last(hist).status = 422) =>
        (outcome.kind = "raised" /\ outcome.err = "Validation" /\ outcome.msg = Last(hist).text)

----------------------------------------------------------------------------
(* Claims about the response normalizer.                                   *)

\* C7: the normalizer is idempotent: normalizing the normalized envelope
\* returns it unchanged, for every dict envelope.
C7_NormalizeIdempotent == npc = 2 => renormalized = normalized

C7_Witness ==
    /\ npc = 2
    /\ normalized # envelope
    /\ "flashcards" \in DOMAIN normalized
    /\ "data" \notin DOMAIN renormalized

HasField(item, f) == item.t = "dict" /\ f \in item.keys

\* the reference function of C8, as the claim words it
Reference(e) ==
    IF "decks" \in DOMAIN e \/ "flashcards" \in DOMAIN e \/ "data" \notin DOMAIN e
    THEN e
    ELSE IF e["data"].t # "list" \/ Len(e["data"].items) = 0
    THEN e
    ELSE LET first == e["data"].items[1]
             isCard == HasField(first, "front") /\ HasField(first, "back")
             isDeck == HasField(first, "name")
             rest == DOMAIN e \ {"data"}
             key == IF isCard THEN "flashcards" ELSE "decks"
         IN IF ~isCard /\ ~isDeck
            THEN e
            ELSE [k \in rest \cup {key} |-> IF k = key THEN e["data"] ELSE e[k]]

\* C8: _normalize_response(e) is e unchanged if e has decks or flashcards, has
\* no data, or its data is empty, not a list, or starts with an element having
\* neither front and back nor name; otherwise it is e with data removed and the
\* array stored under flashcards (front and back present) or else under decks
\* (name present), every other field kept.
C8_NormalizeMatchesReference == npc >= 1 => normalized = Reference(envelope)

C8_Witness ==
    /\ npc = 1
    /\ "decks" \notin DOMAIN envelope
    /\ "message" \in DOMAIN envelope
    /\ DOMAIN normalized = {"decks", "message"}
    /\ normalized["decks"] = envelope["data"]
    /\ Len(envelope["data"].items) = MaxItems

----------------------------------------------------------------------------
(* Claims about the bulk tag-assignment tool.                              *)

\* the failed count of a returned result: the key is present only when an item failed
FailedOf(r) == IF "failed_assignments" \in DOMAIN r THEN r.failed_assignments ELSE 0

\* C10: once the per-item loop is reached, every item already processed is in
\* exactly one of Updated, Skipped and Failed, and the returned result satisfies
\* succeeded + skipped + failed == requested, the number of ids passed.
C10_AggregationConservation ==
    /\ bpc \in {"get_flashcard", "update_flashcard"} =>
          success_count + skipped_count + Len(failed_flashcards) = idx - 1
    /\ (bpc = "done" /\ "success" \in DOMAIN result) =>
          /\ result.flashcard_ids_requested = Len(flashcard_ids)
          /\ result.successful_assignments + result.skipped_already_tagged + FailedOf(result)
                = result.flashcard_ids_requested
          /\ result.successful_assignments = success_count
          /\ result.skipped_already_tagged = skipped_count
          /\ FailedOf(result) = Len(failed_flashcards)

\* a batch with a duplicate id and a wrong-deck item: one Updated, one Skipped, one Failed
C10_Witness ==
    /\ bpc = "done"
    /\ "success" \in DOMAIN result
    /\ flashcard_ids = <<1, 1, 3>>
    /\ result.successful_assignments = 1
    /\ result.skipped_already_tagged = 1
    /\ FailedOf(result) = 1

\* the reasons of the items that failed because an upstream call raised
UpstreamErrors == RaisedReasons \cup {"AttributeError"}

\* the ids of a list are pairwise different
Distinct(ids) == \A i, j \in 1..Len(ids) : i # j => ids[i] # ids[j]

\* C11: with no other writer and T a tag of the deck, a first call for n
\* flashcards of the deck that do not bear T, none of which fails, yields
\* succeeded = n; after a call that updated all n, an identical second call
\* sends no update request and yields succeeded = 0, its items being skipped
\* unless an upstream call raised for them: with no upstream error it yields
\* skipped = n and failed = 0.
C11_IdempotentAssignment ==
    /\ (bpc = "done" /\ calls = 1 /\ "success" \in DOMAIN result
          /\ FailedOf(result) = 0 /\ Distinct(flashcard_ids)
          /\ \A i \in 1..Len(flashcard_ids) :
                UpstreamCards[flashcard_ids[i]].tagId # tag_id) =>
          /\ result.successful_assignments = Len(flashcard_ids)
          /\ result.skipped_already_tagged = 0
    /\ (calls >= 2 /\ "success" \in DOMAIN previous.result
          /\ previous.result.successful_assignments = Len(flashcard_ids)) =>
          /\ Len(updates) = previous.updates
          /\ success_count = 0
          /\ \A i \in 1..Len(failed_flashcards) :
                failed_flashcards[i].reason \in UpstreamErrors
          /\ (bpc = "done" /\ "success" \in DOMAIN result) =>
                /\ result.successful_assignments = 0
                /\ result.skipped_already_tagged + FailedOf(result) = Len(flashcard_ids)
                /\ FailedOf(result) = 0 => result.skipped_already_tagged = Len(flashcard_ids)

\* the tag Verbs is assigned to the flashcards 1 and 2 twice in a row: two
\* updates, then two skips
C11_Witness ==
    /\ bpc = "done"
    /\ calls = 2
    /\ flashcard_ids = <<1, 2>>
    /\ "success" \in DOMAIN previous.result
    /\ previous.result.successful_assignments = 2
    /\ "success" \in DOMAIN result
    /\ result.successful_assignments = 0
    /\ result.skipped_already_tagged = 2
    /\ FailedOf(result) = 0
    /\ Len(updates) = 2

\* the flashcards of a deck, and those of them that bear no tag
DeckCards(did) == {id \in DOMAIN cards : cards[id].deckId = did}

UntaggedCards(did) == {id \in DeckCards(did) : cards[id].tagId = 0}

\* C12: a first invocation that names the criterion "all" (or "untagged")
\* for an existing deck and tag returns a success result whose selection is
\* every flashcard of the deck (or every untagged one).
C12_SelectionModes ==
    (bpc = "done" /\ calls = 1 /\ filter_criteria \in FilterCriteria
       /\ FindDeck(UpstreamDecks, deck_name) # 0 /\ FindTag(deck_tags, tag_name) # 0) =>
        /\ "success" \in DOMAIN result
        /\ result.flashcard_ids_requested =
              Cardinality(IF filter_criteria = "all"
                          THEN DeckCards(FindDeck(UpstreamDecks, deck_name))
                          ELSE UntaggedCards(FindDeck(UpstreamDecks, deck_name)))

\* C13: a request carrying between 1 and 100 ids, with a valid deck name and
\* tag name, is not rejected for its size.
C13_AcceptsUpTo100Ids ==
    (bpc = "done" /\ Len(flashcard_ids) >= 1 /\ Len(flashcard_ids) <= MaxDeclaredIds
       /\ "error" \in DOMAIN result) =>
        result.error # "Invalid flashcard_ids"

\* how many requests of one name a log holds
Count(log, name) == Cardinality({i \in 1..Len(log) : log[i] = name})

\* C14: once the tags of the deck have been listed, the invocation has sent
\* one tag lookup; the target tag is the listed tag whose name matches
\* case-insensitively, and when there is none exactly one create-tag request
\* has been sent and the id it returned is the target of every item.
C14_TagResolvedOnce ==
    (\/ bpc \in {"get_flashcard", "update_flashcard"}
     \/ /\ bpc = "done"
        /\ tag_requests # << >>
        /\ "error" \in DOMAIN result => result.error # "Internal server error") =>
        /\ Count(tag_requests, "get_deck_tags") = 1
        /\ IF FindTag(deck_tags, tag_name) # 0
           THEN /\ tag_id = FindTag(deck_tags, tag_name)
                /\ Count(tag_requests, "create_tag") = 0
           ELSE /\ tag_id # 0
                /\ Count(tag_requests, "create_tag") = 1
                /\ "success" \in DOMAIN result => result.tag_created

\* the items the loop has finished with
Processed ==
    IF bpc \in {"get_flashcard", "update_flashcard"} THEN SubSeq(flashcard_ids, 1, idx - 1)
    ELSE IF bpc = "done" /\ "success" \in DOMAIN result THEN flashcard_ids
    ELSE << >>

\* the ids of the failed items, in the order they failed
FailedIds == [i \in 1..Len(failed_flashcards) |-> failed_flashcards[i].id]

\* an id the upstream has no flashcard for, or whose flashcard is of another deck
Foreign(id) ==
    \/ id \notin DOMAIN UpstreamCards
    \/ UpstreamCards[id].deckId # FindDeck(UpstreamDecks, deck_name)

\* C15: every update request is for a flashcard the upstream has and whose
\* deckId is the target deck's id, and every processed item whose re-fetch
\* returns no record or a record of another deck is among the failed items,
\* once per occurrence.
C15_MembershipVerified ==
    /\ \A i \in 1..Len(updates) :
          /\ ~Foreign(updates[i].id)
          /\ updates[i].deckId = UpstreamCards[updates[i].id].deckId
    /\ SelectSeq(FailedIds, Foreign) = SelectSeq(Processed, Foreign)

\* a flashcard of another deck, an unknown id and a flashcard of the deck: two
\* failed, one update sent
C15_Witness ==
    /\ bpc = "done"
    /\ "success" \in DOMAIN result
    /\ flashcard_ids = <<3, 9, 1>>
    /\ FailedOf(result) = 2
    /\ result.failures[1].reason = "Flashcard does not belong to deck"
    /\ result.failures[2].reason = "Flashcard not found"
    /\ Len(updates) = 1
    /\ updates[1].id = 1

\* a step of the loop that finishes the item at idx or sends its update
LoopStepInOrder ==
    bpc \in {"get_flashcard", "update_flashcard"} =>
        \/ /\ bpc = "get_flashcard"
           /\ bpc' = "update_flashcard"
           /\ idx' = idx
           /\ updates'[Len(updates')].id = flashcard_ids[idx]
           /\ UNCHANGED <<success_count, skipped_count, failed_flashcards>>
        \/ /\ success_count' + skipped_count' + Len(failed_flashcards')
                 = success_count + skipped_count + Len(failed_flashcards) + 1
           /\ \/ failed_flashcards' = failed_flashcards
              \/ /\ Len(failed_flashcards') = Len(failed_flashcards) + 1
                 /\ SubSeq(failed_flashcards', 1, Len(failed_flashcards)) = failed_flashcards
                 /\ failed_flashcards'[Len(failed_flashcards')].id = flashcard_ids[idx]
                 /\ failed_flashcards'[Len(failed_flashcards')].reason # ""
           /\ IF idx < Len(flashcard_ids)
              THEN /\ bpc' = "get_flashcard"
                   /\ idx' = idx + 1
              ELSE /\ bpc' = "done"
                   /\ "success" \in DOMAIN result'
                   /\ result'.flashcard_ids_requested = Len(flashcard_ids)
                   /\ FailedOf(result') = Len(failed_flashcards')

\* C16: inside the loop a step either sends the update of the item just
\* fetched or finishes that item; a finished item that failed is appended to
\* the failed items under its own id with the error text; then the next id in
\* input order is fetched, and only after the last id the tool returns, with a
\* success result for all the ids.
C16_NoShortCircuit == [][LoopStepInOrder]_vars

\* the fetch of the first item raised and the two items after it were
\* processed: one skipped, one updated
C16_Witness ==
    /\ bpc = "done"
    /\ "success" \in DOMAIN result
    /\ flashcard_ids = <<1, 2, 1>>
    /\ FailedOf(result) = 1
    /\ result.failures[1] = Failure(1, "HTTPStatusError")
    /\ result.skipped_already_tagged = 1
    /\ result.successful_assignments = 1

RECURSIVE IsSubsequence(_, _)
\* the elements of s occur in t in the same order
IsSubsequence(s, t) ==
    IF s = << >> THEN TRUE
    ELSE IF t = << >> THEN FALSE
    ELSE IF Head(s) = Head(t) THEN IsSubsequence(Tail(s), Tail(t))
    ELSE IsSubsequence(s, Tail(t))

\* C17: in a returned result the failed count is the number of requested
\* items neither updated nor skipped, which is the number of items that
\* failed; the failure detail list is absent when no item failed and else
\* holds the first min(5, failed) failed items, which are in request order.
C17_FailureSample ==
    (bpc = "done" /\ "success" \in DOMAIN result) =>
        LET failed == result.flashcard_ids_requested - result.successful_assignments
                          - result.skipped_already_tagged
        IN /\ FailedOf(result) = failed
           /\ Len(failed_flashcards) = failed
           /\ IsSubsequence(FailedIds, flashcard_ids)
           /\ IF failed = 0
              THEN "failures" \notin DOMAIN result
              ELSE /\ Len(result.failures)
                        = (IF failed < FailureSampleSize THEN failed ELSE FailureSampleSize)
                   /\ \A i \in 1..Len(result.failures) :
                         result.failures[i] = failed_flashcards[i]

\* a batch of which more items failed than the sample holds
C17_Witness ==
    /\ bpc = "done"
    /\ "success" \in DOMAIN result
    /\ FailedOf(result) = FailureSampleSize + 1
    /\ Len(result.failures) = FailureSampleSize
    /\ result.failures[FailureSampleSize].id = 3
    /\ failed_flashcards[FailureSampleSize + 1].id = 1

----------------------------------------------------------------------------
(* Claims about the deck statistics tool.                                  *)

\* the statistics endpoint answered an object "stats" that is not empty
NonEmptyPayload(r) ==
    /\ "data" \in DOMAIN r
    /\ IsDict(r.data)
    /\ "stats" \in DOMAIN r.data
    /\ IsDict(r.data.stats)
    /\ r.data.stats # EmptyDict

\* the statistics call of this invocation has completed
StatsCallCompleted == spc = "done" /\ stats_response # EmptyDict

\* C18: whenever the statistics endpoint answered a non-empty "stats" object,
\* get_deck_stats returns that object unchanged as the statistics and the
\* result's data_source is backend_stats.
C18_AuthoritativePassThrough ==
    (StatsCallCompleted /\ NonEmptyPayload(stats_response)) =>
        /\ "statistics" \in DOMAIN stats_result
        /\ stats_result.statistics = stats_response.data.stats
        /\ stats_result.data_source = "backend_stats"

\* C19: whenever the statistics call raised or answered no "stats" or an empty
\* one, the result's data_source is calculated_fallback and its statistics
\* are derived from the deck's listing entry (its flashcardsCount and its
\* tags, when the entry's "stats" is an object); and a result's data_source
\* is backend_stats exactly when its statistics are the non-empty "stats"
\* object the endpoint answered.
C19_FallbackWhenUnavailable ==
    StatsCallCompleted =>
        /\ ~NonEmptyPayload(stats_response) =>
              /\ "data_source" \in DOMAIN stats_result
              /\ stats_result.data_source = "calculated_fallback"
              /\ IF IsDict(Get(deck_basic_info, "stats", EmptyDict))
                 THEN /\ stats_result.statistics.totalFlashcards
                            = Get(Get(deck_basic_info, "stats", EmptyDict), "flashcardsCount", 0)
                      /\ stats_result.statistics.organizationMetrics.tagsCount
                            = Len(Get(deck_basic_info, "tags", << >>))
                 ELSE stats_result.statistics = EmptyDict
        /\ "data_source" \in DOMAIN stats_result =>
              /\ stats_result.data_source \in {"backend_stats", "calculated_fallback"}
              /\ stats_result.data_source = "backend_stats"
                    <=> /\ NonEmptyPayload(stats_response)
                        /\ stats_result.statistics = stats_response.data.stats

\* the statistics call raised for a deck listed with 11 flashcards and 3 tags
C19_Witness ==
    /\ StatsCallCompleted
    /\ stats_response = CallRaised
    /\ "data_source" \in DOMAIN stats_result
    /\ stats_result.data_source = "calculated_fallback"
    /\ "totalFlashcards" \in DOMAIN stats_result.statistics
    /\ stats_result.statistics.totalFlashcards = 11
    /\ stats_result.statistics.organizationMetrics.tagsCount = 3

RECURSIVE SumCounts(_)
\* the sum of the per-tag counts
SumCounts(by_tag) == IF by_tag = << >> THEN 0 ELSE Head(by_tag).count + SumCounts(Tail(by_tag))

\* C20: in an estimate for a deck listed with T > 0 flashcards and n > 0
\* tags, the i-th tag of the listing (counted from 0) gets
\* T // n + (1 if i < T % n else 0) flashcards; the counts sum to T and
\* differ by at most 1.
C20_EvenDistribution ==
    (StatsCallCompleted /\ "data_source" \in DOMAIN stats_result
       /\ stats_result.data_source = "calculated_fallback"
       /\ IsDict(Get(deck_basic_info, "stats", EmptyDict))) =>
        LET T == Get(Get(deck_basic_info, "stats", EmptyDict), "flashcardsCount", 0)
            tags == Get(deck_basic_info, "tags", << >>)
            n == Len(tags)
            by_tag == stats_result.statistics.flashcardsByTag
        IN (T > 0 /\ n > 0) =>
              /\ Len(by_tag) = n
              /\ \A k \in 1..n :
                    /\ by_tag[k].tagId = tags[k].id
                    /\ by_tag[k].count = (T \div n) + (IF k - 1 < T % n THEN 1 ELSE 0)
              /\ SumCounts(by_tag) = T
              /\ \A k, l \in 1..n : by_tag[k].count - by_tag[l].count <= 1

\* 11 flashcards over 3 tags: 4, 4, 3
C20_Witness ==
    /\ StatsCallCompleted
    /\ "data_source" \in DOMAIN stats_result
    /\ stats_result.data_source = "calculated_fallback"
    /\ "totalFlashcards" \in DOMAIN stats_result.statistics
    /\ stats_result.statistics.totalFlashcards = 11
    /\ Len(stats_result.statistics.flashcardsByTag) = 3
    /\ stats_result.statistics.flashcardsByTag[1].count = 4
    /\ stats_result.statistics.flashcardsByTag[2].count = 4
    /\ stats_result.statistics.flashcardsByTag[3].count = 3

----------------------------------------------------------------------------
(* The estimated statistics.                                               *)

\* get_deck_stats returned an estimate computed from the deck listing
ListingEstimated ==
    spc = "done" /\ ~backend_provided_stats /\ "organizationMetrics" \in DOMAIN stats_data

\* the estimator returned statistics for the deck-info response
DeckInfoEstimated == epc = "done" /\ "organizationMetrics" \in DOMAIN calculated_stats

\* C21: every estimate's organizationStatus follows the decision table: it is
\* "empty" exactly when the deck has no flashcards; otherwise "organized" when
\* all flashcards are tagged (the listing names a tag, or the per-tag counts
\* cover the card count) and a tag exists; otherwise "needs_organization".
C21_DecisionTable ==
    /\ ListingEstimated =>
        LET total == Get(Get(deck_basic_info, "stats", EmptyDict), "flashcardsCount", 0)
            tags == Get(deck_basic_info, "tags", << >>)
            status == stats_data.organizationMetrics.organizationStatus
        IN /\ stats_data.totalFlashcards = total
           /\ status = (IF total = 0 THEN "empty"
                        ELSE IF Len(tags) > 0 THEN "organized"
                        ELSE "needs_organization")
    /\ DeckInfoEstimated =>
        LET total == Get(Get(deck_info_response, "deck", EmptyDict), "card_count", 0)
            tags == Get(deck_info_response, "tags", << >>)
            status == calculated_stats.organizationMetrics.organizationStatus
        IN /\ calculated_stats.totalFlashcards = total
           /\ status = (IF total = 0 THEN "empty"
                        ELSE IF SumFlashcardCounts(tags) >= total /\ Len(tags) > 0
                             THEN "organized"
                        ELSE "needs_organization")

\* the mock deck of 11 flashcards with tags of 4, 5 and 2 is organized
C21_Witness ==
    /\ DeckInfoEstimated
    /\ deck_info_response = MockDeckInfo
    /\ calculated_stats.organizationMetrics.organizationStatus = "organized"

\* organizationPercentage, held in tenths, is within [0, 100], and a snapshot
\* of no flashcards is "empty"
WithinRange(snapshot) ==
    /\ snapshot.organizationMetrics.organizationPercentage >= 0
    /\ snapshot.organizationMetrics.organizationPercentage <= 1000
    /\ snapshot.totalFlashcards = 0 =>
            snapshot.organizationMetrics.organizationStatus = "empty"

\* C22: in every estimate organizationPercentage is within [0, 100], whatever
\* the estimator was given (per-tag counts whose sum differs from the card
\* count included), and totalFlashcards = 0 implies the status "empty".
C22_PercentageWithinRange ==
    /\ ListingEstimated => WithinRange(stats_data)
    /\ DeckInfoEstimated => WithinRange(calculated_stats)

\* the tagged and untagged counts are not negative and add up to the total
CountsAddUp(snapshot) ==
    /\ snapshot.taggedFlashcards >= 0
    /\ snapshot.untaggedFlashcards >= 0
    /\ snapshot.taggedFlashcards + snapshot.untaggedFlashcards = snapshot.totalFlashcards

\* C27: every estimate has taggedFlashcards + untaggedFlashcards =
\* totalFlashcards with both counts >= 0, from the deck listing and from
\* explicit per-tag counts alike.
C27_TaggedPlusUntagged ==
    /\ ListingEstimated => CountsAddUp(stats_data)
    /\ DeckInfoEstimated => CountsAddUp(calculated_stats)

----------------------------------------------------------------------------
(* The tool boundary.                                                      *)

\* a value a tool returns for a failure: "error" and "message", both with text
StructuredError(value) ==
    /\ "error" \in DOMAIN value /\ value.error # ""
    /\ "message" \in DOMAIN value /\ value.message # ""

\* the names of the decks of a listing, in order
NamesOf(decks) == [i \in 1..Len(decks) |-> decks[i].name]

AuthReasons == {"401 Unauthorized", "403 Forbidden"}

\* C24: a 401 or 403 answer to an upstream call ends the operation with that
\* error and no further upstream request: once an item's fetch or update has
\* been answered so, the bulk invocation has ended with a returned error and
\* that item is the last it touched; a statistics call answered so ends
\* get_deck_stats with a returned error.
C24_AuthFailureIsFatal ==
    /\ \A i \in 1..Len(failed_flashcards) :
            failed_flashcards[i].reason \in AuthReasons =>
                /\ bpc = "done"
                /\ StructuredError(result)
                /\ i = Len(failed_flashcards)
    /\ spc = "done" /\ stats_response \in AuthRaised => StructuredError(stats_result)

----------------------------------------------------------------------------
(* The update the loop sends.                                              *)

\* a step that sends an update request sends one, for the item just fetched,
\* with the fetched record's front, back and difficulty, the target deck and
\* the resolved tag; a step that counts an item as updated follows that
\* item's request, which the upstream has applied; no iteration sends two
UpdateCarriesForward ==
    /\ updates' # updates =>
        /\ bpc = "get_flashcard" /\ bpc' = "update_flashcard" /\ idx' = idx
        /\ flashcard_info' = cards[flashcard_ids[idx]]
        /\ updates' = Append(updates,
                             [id |-> flashcard_ids[idx],
                              front |-> flashcard_info'.front,
                              back |-> flashcard_info'.back,
                              difficulty |-> flashcard_info'.difficulty,
                              deckId |-> FindDeck(UpstreamDecks, deck_name),
                              tagId |-> FindTag(deck_tags, tag_name)])
        /\ success_count' = success_count
    /\ success_count' > success_count =>
        /\ bpc = "update_flashcard" /\ bpc' # "update_flashcard"
        /\ success_count' = success_count + 1
        /\ updates' = updates
        /\ updates[Len(updates)].id = flashcard_ids[idx]
        /\ failed_flashcards' = failed_flashcards /\ skipped_count' = skipped_count
        /\ cards'[flashcard_ids[idx]] =
                [deckId |-> deck_id, tagId |-> tag_id, front |-> flashcard_info.front,
                 back |-> flashcard_info.back, difficulty |-> flashcard_info.difficulty]
    /\ bpc = "update_flashcard" => bpc' # "update_flashcard"

\* C26: for an item neither failed nor skipped the loop sends exactly one
\* update request, carrying the front, back and difficulty of the record
\* fetched for it in the same iteration, the target deck as deckId and the
\* resolved tag as tagId; the item is counted as updated only once that
\* request has succeeded.
C26_CarryForwardUpdate == [][UpdateCarriesForward]_vars

\* flashcard 1 was updated by the one request sent, carrying its own text
C26_Witness ==
    /\ bpc = "done"
    /\ "success" \in DOMAIN result
    /\ result.successful_assignments = 1
    /\ updates = <<[id |-> 1, front |-> "hola", back |-> "hello", difficulty |-> 1,
                    deckId |-> 1, tagId |-> tag_id]>>
    /\ cards[1].tagId = tag_id

----------------------------------------------------------------------------
(* The HTTP clients of the process.                                        *)

\* C25: the process has at most one HTTP client: whatever tools have been
\* invoked, one client has been constructed, and a repeated invocation
\* constructs none.
C25_OneClient == clients <= 1

----------------------------------------------------------------------------
(* Concurrent invocations.                                                 *)

\* both invocations name the deck Spanish and the same tag, which the deck
\* did not have when its tags were listed
SameNewTag ==
    /\ bpc # "idle" /\ other.bpc # "idle"
    /\ Lower(deck_name) = Lower(other.deck_name)
    /\ Lower(tag_name) = Lower(other.tag_name)

UpdateKeepsContent ==
    (bpc = "update_flashcard" /\ bpc' # bpc /\ cards' # cards) =>
        LET id == flashcard_ids[idx] IN
        /\ cards'[id].front = cards[id].front
        /\ cards'[id].back = cards[id].back
        /\ cards'[id].difficulty = cards[id].difficulty

\* C29: the loop's update never loses a concurrent edit: when update_flashcard
\* has changed the front, back or difficulty of a flashcard between the
\* loop's fetch of it and the loop's update, the flashcard keeps the edit's
\* front, back and difficulty, not the values the loop had fetched.
C29_NoLostEdit == [][UpdateKeepsContent]_vars

----------------------------------------------------------------------------
(* The backoff delay.                                                      *)

\* from the sleeping request the only step is the adapter's own: the sleep
\* ends and the next attempt is sent, every other coroutine standing still
BackoffIsContiguous ==
    pc = "backoff" =>
        /\ pc' = "request"
        /\ attempt' = attempt + 1
        /\ UNCHANGED <<statsVars, bulkVars, normVars, toolVars>>

\* C30: the backoff delay is not a suspension point: between a failure that
\* is retried and the next attempt of the same call no other coroutine or tool
\* invocation takes a step, so the failed attempt, the delay and the next
\* attempt follow one another in every interleaving.
C30_BackoffBlocksEventLoop == [][BackoffIsContiguous]_vars

\* the request sleeps before its second attempt while an invocation of
\* get_deck_stats awaits its deck listing
C30_Witness ==
    /\ pc = "backoff"
    /\ attempt = 0
    /\ spc = "list_decks_mcp"

====
